---- MODULE Spec2Model ----
(***************************************************************************)
(* A model of the ingestion pipeline and persistent query layer of Snap    *)
(* Data Explorer (src-tauri/src): the SQLite store with its FTS5 index,    *)
(* the HTML/JSON reconciliation of the orchestrator, the media linker and  *)
(* the zip extractor.                                                      *)
(*                                                                         *)
(* Conventions.  A Rust String is a sequence of one-character strings.     *)
(* An Option<T> is a sequence of length at most one: << >> is None and     *)
(* <<x>> is Some(x).  A Vec<T> is a sequence.  A table is a set of rows    *)
(* (records) with a primary key, except the FTS5 virtual table, which has  *)
(* no key and is a sequence of rows in rowid order.                        *)
(***************************************************************************)
EXTENDS Integers, Sequences, FiniteSets, TLC

VARIABLES
    store,      \* the SQLite database file index.db: its tables
    resp,       \* the value returned by the last store operation
    linker,     \* a MediaLinker, the events it is given and the files on disk
    zip,        \* one call of ZipExtractor::extract and the disk it writes to
    run,        \* one call of process_export: the locals of reconstruct_from_path
    downloader, \* a MemoryDownloader: the call in progress, the remote server and
                \* the storage directory
    pool,       \* the connection pool of one DatabaseManager and the operations
                \* that have called conn()
    data_dir,   \* the app data directory: index.db with its WAL and SHM files,
                \* the working directories exports/<export_id> and the calls of
                \* process_export that use them; the source paths that exist
    txn,        \* a transaction of batch_insert_events that has not ended: the
                \* batch, what it has written and what a reader has seen of it
    peer        \* a call of download_memory that runs while downloader runs

vars == <<store, resp, linker, zip, run, downloader, pool, data_dir, txn, peer>>

\* The value of a variable whose component takes no part in a behaviour.
Idle == [pc |-> "idle"]

\* The app data directory after DatabaseManager::new(&db) (db.rs:18-43): the
\* file index.db is there.
DbOpened(d) == IF d.pc = "files" THEN [d EXCEPT !.index_db = TRUE] ELSE d

\* The app data directory after index.db and its WAL and SHM files are
\* removed (lib.rs:668-681 and 713-724).
DbRemoved(d) ==
    IF d.pc = "files" THEN [d EXCEPT !.index_db = FALSE, !.wal = FALSE, !.shm = FALSE] ELSE d

None == << >>

Some(x) == <<x>>

IsSome(o) == Len(o) = 1

Unwrap(o) == o[1]

Range(s) == {s[i] : i \in 1..Len(s)}

RECURSIVE Concat(_)
\* Concatenation of a sequence of sequences.
Concat(ss) == IF ss = << >> THEN << >> ELSE Head(ss) \o Concat(Tail(ss))

Min(a, b) == IF a <= b THEN a ELSE b

Max(a, b) == IF a >= b THEN a ELSE b

(***************************************************************************)
(* Program constants.                                                      *)
(***************************************************************************)
\* db.rs:559  limit.clamp(1, 500) in search_messages
SearchLimitMax == 500

\* db.rs:481  limit.clamp(1, 2000) in get_messages_page
PageLimitMax == 2000

\* The largest i32 (offset and limit of get_messages_page are i32, db.rs:479).
I32Max == 2147483647

I32Min == -I32Max - 1

(***************************************************************************)
(* Characters.  Rust's split_whitespace splits on Unicode White_Space; the *)
(* unicode61 tokenizer of FTS5 makes tokens of letters and digits and      *)
(* treats every other character as a separator.                            *)
(***************************************************************************)
Quote == "\""

Space == " "

IsWhitespace(c) == c \in {" ", "\t"}

IsTokenChar(c) == c \in {"a", "b"}

(***************************************************************************)
(* DatabaseManager::sanitize_fts_query  (db.rs:540-551)                    *)
(***************************************************************************)
RECURSIVE SplitScan(_, _, _, _)
\* str::split_whitespace: the maximal runs of non-whitespace characters,
\* scanned left to right; cur is the run being read, acc the runs read.
SplitScan(s, i, cur, acc) ==
    IF i > Len(s)
    THEN IF cur = << >> THEN acc ELSE Append(acc, cur)
    ELSE IF IsWhitespace(s[i])
         THEN SplitScan(s, i + 1, << >>, IF cur = << >> THEN acc ELSE Append(acc, cur))
         ELSE SplitScan(s, i + 1, Append(cur, s[i]), acc)

split_whitespace(s) == SplitScan(s, 1, << >>, << >>)

RECURSIVE ReplaceQuote(_)
\* w.replace('"', "\"\""): every double quote becomes two.
ReplaceQuote(w) ==
    IF w = << >> THEN << >>
    ELSE (IF Head(w) = Quote THEN <<Quote, Quote>> ELSE <<Head(w)>>) \o ReplaceQuote(Tail(w))

\* The closure of the map: format!("\"{}\"", w.replace('"', "\"\"")).
QuoteWordNoEscape(w) == <<Quote>> \o w \o <<Quote>>

QuoteWord(w) == <<Quote>> \o ReplaceQuote(w) \o <<Quote>>

RECURSIVE Join(_, _)
\* words.join(sep)
Join(words, sep) ==
    IF words = << >> THEN << >>
    ELSE IF Len(words) = 1 THEN words[1]
    ELSE words[1] \o sep \o Join(Tail(words), sep)

sanitize_fts_query(query) ==
    LET nonEmpty == SelectSeq(split_whitespace(query), LAMBDA w : w # << >>)
        words == [k \in 1..Len(nonEmpty) |-> QuoteWord(nonEmpty[k])]
    IN  Join(words, <<Space>>)

(***************************************************************************)
(* The FTS5 side of  "WHERE events_fts MATCH ?1"  (db.rs:113-119, 569):    *)
(* the query text is parsed into phrases, each phrase and each document is *)
(* tokenized by unicode61, and a document matches when it holds every      *)
(* phrase as consecutive tokens.                                           *)
(***************************************************************************)
RECURSIVE TokenScan(_, _, _, _)
TokenScan(s, i, cur, acc) ==
    IF i > Len(s)
    THEN IF cur = << >> THEN acc ELSE Append(acc, cur)
    ELSE IF IsTokenChar(s[i])
         THEN TokenScan(s, i + 1, Append(cur, s[i]), acc)
         ELSE TokenScan(s, i + 1, << >>, IF cur = << >> THEN acc ELSE Append(acc, cur))

\* tokenize='unicode61': the maximal runs of token characters.
Tokenize(s) == TokenScan(s, 1, << >>, << >>)

RECURSIVE FtsParse(_, _, _, _, _)
\* The FTS5 query lexer on the bound MATCH text: quoted strings ("" inside
\* a string is one quote), barewords, whitespace between them.  The result
\* is [ok, phrases]; ok is FALSE on a syntax error (an unterminated string
\* or a character that starts no term).
FtsParse(s, i, mode, cur, acc) ==
    IF i > Len(s)
    THEN IF mode = "in" THEN [ok |-> FALSE, phrases |-> << >>]
         ELSE IF mode = "bare" THEN [ok |-> TRUE, phrases |-> Append(acc, cur)]
         ELSE [ok |-> TRUE, phrases |-> acc]
    ELSE IF mode = "out"
         THEN IF IsWhitespace(s[i]) THEN FtsParse(s, i + 1, "out", << >>, acc)
              ELSE IF s[i] = Quote THEN FtsParse(s, i + 1, "in", << >>, acc)
              ELSE IF IsTokenChar(s[i]) THEN FtsParse(s, i + 1, "bare", <<s[i]>>, acc)
              ELSE [ok |-> FALSE, phrases |-> << >>]
         ELSE IF mode = "in"
         THEN IF s[i] = Quote
              THEN IF i + 1 <= Len(s) /\ s[i + 1] = Quote
                   THEN FtsParse(s, i + 2, "in", Append(cur, Quote), acc)
                   ELSE FtsParse(s, i + 1, "out", << >>, Append(acc, cur))
              ELSE FtsParse(s, i + 1, "in", Append(cur, s[i]), acc)
         ELSE \* mode = "bare"
              IF IsTokenChar(s[i]) THEN FtsParse(s, i + 1, "bare", Append(cur, s[i]), acc)
              ELSE FtsParse(s, i, "out", << >>, Append(acc, cur))

FtsQuery(text) == FtsParse(text, 1, "out", << >>, << >>)

\* toks occurs in doc as consecutive tokens.
PhraseIn(toks, doc) ==
    \E k \in 0..(Len(doc) - Len(toks)) :
        \A j \in 1..Len(toks) : doc[k + j] = toks[j]

\* The token sequences of the phrases; a phrase without tokens is dropped
\* from the implicit AND.
FtsTerms(phrases) ==
    SelectSeq([k \in 1..Len(phrases) |-> Tokenize(phrases[k])], LAMBDA t : t # << >>)

\* The implicit AND of the terms on one row; an expression with no token at
\* all matches no row.
FtsMatches(terms, content) ==
    LET doc == Tokenize(content)
    IN  /\ terms # << >>
        /\ \A k \in 1..Len(terms) : PhraseIn(terms[k], doc)

(***************************************************************************)
(* Stored encodings.                                                       *)
(***************************************************************************)
\* A path whose bytes are not UTF-8 (serde refuses to serialize it).
NonUtf8Path == "p_nonutf8"

\* DateTime::to_rfc3339 (db.rs:234): the text stored in a timestamp column.
to_rfc3339(t) == <<"rfc3339", t>>

\* chrono::DateTime::<Utc>::MIN_UTC, the sentinel of db.rs:452.
MIN_UTC == -1

\* DateTime::parse_from_rfc3339 (db.rs:448): None when the text is no date.
parse_from_rfc3339(text) ==
    IF Len(text) = 2 /\ text[1] = "rfc3339" THEN Some(text[2]) ELSE None

RECURSIVE JsonItems(_)
JsonItems(paths) ==
    IF paths = << >> THEN << >>
    ELSE IF Len(paths) = 1 THEN <<paths[1]>>
    ELSE <<paths[1], ",">> \o JsonItems(Tail(paths))

\* The text '[]'.
EmptyJsonArray == <<"[", "]">>

\* serde_json::to_string(&event.media_references).unwrap_or_else(|_| "[]")
\* (db.rs:240-243): the JSON array text, or '[]' when a path does not
\* serialize.
media_references_json(paths) ==
    IF \E k \in 1..Len(paths) : paths[k] = NonUtf8Path
    THEN EmptyJsonArray
    ELSE <<"[">> \o JsonItems(paths) \o <<"]">>

\* serde_json::from_str(&media_refs_json).unwrap_or_default() (db.rs:456):
\* the items between the brackets, the separators dropped.
media_references_from_json(text) ==
    IF Len(text) < 2 \/ text[1] # "[" \/ text[Len(text)] # "]" THEN << >>
    ELSE LET inner == SubSeq(text, 2, Len(text) - 1)
         IN  SelectSeq(inner, LAMBDA x : x # ",")

\* A content counted as empty as soon as it holds any whitespace.
TrimIsEmptyAnyWhitespace(content) == \E k \in 1..Len(content) : IsWhitespace(content[k])

\* content.trim().is_empty() (db.rs:247)
TrimIsEmpty(content) == \A k \in 1..Len(content) : IsWhitespace(content[k])

(***************************************************************************)
(* The store: the tables of initialize_schema (db.rs:49-123).  A new       *)
(* database holds no rows.                                                 *)
(***************************************************************************)
EmptyStore ==
    [exports       |-> {},    \* rows [id, source_path, source_type, validation_status]
     people        |-> {},    \* rows [username, display_name]
     conversations |-> {},    \* rows [id, display_name, last_event_at]
     memories      |-> {},    \* rows, see MemoryRow
     settings      |-> {},    \* rows [key, value]
     events        |-> << >>, \* id -> row, see EventRow
     events_fts    |-> << >>] \* event_id -> the rows of the index with that
                              \* event_id, oldest first, see FtsRow

NoResp == [op |-> "none"]

ExportIds(st) == {x.id : x \in st.exports}

ConversationIds(st) == {c.id : c \in st.conversations}

EventIds(st) == DOMAIN st.events

\* The rows of the events table.
Events(st) == {st.events[id] : id \in DOMAIN st.events}

\* INSERT OR REPLACE on a table with a primary key id.
Replace(table, row) == {r \in table : r.id # row.id} \cup {row}

\* insert_export (db.rs:174-196)
insert_export(st, export) ==
    [st EXCEPT !.exports = Replace(@, export)]

\* The row one Conversation is written as (db.rs:206-211); message_count
\* and has_media have no column.
ConversationRow(c) ==
    [id            |-> c.id,
     display_name  |-> c.display_name,
     last_event_at |-> IF IsSome(c.last_event_at)
                       THEN Some(to_rfc3339(Unwrap(c.last_event_at)))
                       ELSE None]

RECURSIVE InsertConversations(_, _)
InsertConversations(table, convs) ==
    IF convs = << >> THEN table
    ELSE InsertConversations(Replace(table, ConversationRow(Head(convs))), Tail(convs))

\* batch_insert_conversations (db.rs:198-216)
batch_insert_conversations(st, convs) ==
    [st EXCEPT !.conversations = InsertConversations(@, convs)]

\* The parameters bound to the INSERT of one event (db.rs:232-245).
EventRow(e, export_id) ==
    [id               |-> e.id,
     timestamp        |-> to_rfc3339(e.timestamp),
     sender           |-> e.sender,
     export_id        |-> export_id,
     conversation_id  |-> e.conversation_id,
     content          |-> e.content,
     event_type       |-> e.event_type,
     media_references |-> media_references_json(e.media_references),
     metadata         |-> e.metadata]

\* FOREIGN KEY(export_id), FOREIGN KEY(conversation_id) (db.rs:82-83) under
\* PRAGMA foreign_keys=ON (db.rs:26): a NULL conversation_id references
\* nothing.
ForeignKeysOk(st, row) ==
    /\ row.export_id \in ExportIds(st)
    /\ IsSome(row.conversation_id) => Unwrap(row.conversation_id) \in ConversationIds(st)

\* INSERT OR REPLACE INTO events (db.rs:220-223): id is the primary key.
EventUpsert(table, row) == (row.id :> row) @@ table

\* DELETE FROM events_fts WHERE event_id = ?1 (db.rs:227)
FtsDelete(fts, id) ==
    IF id \in DOMAIN fts THEN [fts EXCEPT ![id] = << >>] ELSE fts

\* INSERT INTO events_fts (...) VALUES (...) (db.rs:228-229)
FtsInsert(fts, row) ==
    IF row.event_id \in DOMAIN fts
    THEN [fts EXCEPT ![row.event_id] = Append(@, row)]
    ELSE (row.event_id :> <<row>>) @@ fts

FtsRow(e) ==
    [content         |-> Unwrap(e.content),
     event_id        |-> e.id,
     conversation_id |-> e.conversation_id,
     sender          |-> e.sender]

\* The FTS statements of one loop iteration without the DELETE.
FtsUpsertNoDelete(fts, e) ==
    IF IsSome(e.content) /\ ~TrimIsEmpty(Unwrap(e.content))
    THEN FtsInsert(fts, FtsRow(e))
    ELSE fts

\* The FTS statements of one loop iteration (db.rs:246-251).
FtsUpsert(fts, e) ==
    IF IsSome(e.content) /\ ~TrimIsEmpty(Unwrap(e.content))
    THEN FtsInsert(FtsDelete(fts, e.id), FtsRow(e))
    ELSE fts

\* One iteration of the loop of batch_insert_events (db.rs:231-252); tx is
\* [ok, st]: a failed statement leaves the loop by `?`.
InsertEvent(tx, e, export_id) ==
    LET row == EventRow(e, export_id)
    IN  IF ~tx.ok THEN tx
        ELSE IF ~ForeignKeysOk(tx.st, row) THEN [ok |-> FALSE, st |-> tx.st]
        ELSE [ok |-> TRUE,
              st |-> [tx.st EXCEPT !.events = EventUpsert(@, row),
                                   !.events_fts = FtsUpsert(@, e)]]

RECURSIVE InsertEvents(_, _, _, _, _)
\* The loop over events[lo..hi] in order, inside the transaction: the first
\* half of the range, then the second.
InsertEvents(tx, events, lo, hi, export_id) ==
    IF lo > hi THEN tx
    ELSE IF lo = hi THEN InsertEvent(tx, events[lo], export_id)
    ELSE LET mid == (lo + hi) \div 2
             first == InsertEvents(tx, events, lo, mid, export_id)
         IN  IF first.ok THEN InsertEvents(first, events, mid + 1, hi, export_id)
             ELSE first

\* batch_insert_events (db.rs:218-256): the transaction commits when every
\* statement succeeded and is rolled back (dropped) otherwise.
batch_insert_events(st, events, export_id) ==
    LET tx == InsertEvents([ok |-> TRUE, st |-> st], events, 1, Len(events), export_id)
    IN  IF tx.ok THEN [ok |-> TRUE, st |-> tx.st] ELSE [ok |-> FALSE, st |-> st]


RECURSIVE InsertPeople(_, _)
InsertPeople(table, people) ==
    IF people = << >> THEN table
    ELSE InsertPeople({r \in table : r.username # Head(people).username} \cup {Head(people)},
                      Tail(people))

\* insert_people (db.rs:161-172)
insert_people(st, people) == [st EXCEPT !.people = InsertPeople(@, people)]

\* "LEFT JOIN people p ON <name> = p.username": p.display_name, or NULL.
PersonDisplayName(st, name) ==
    IF \E p \in st.people : p.username = name
    THEN (CHOOSE p \in st.people : p.username = name).display_name
    ELSE None

\* The subquery of get_conversations that counts the events of one
\* conversation without its conversation_id condition.
CountEventsAnyConversation(st, cid) == Cardinality(Events(st))

\* (SELECT COUNT(*) FROM events WHERE conversation_id = c.id) (db.rs:295)
CountEvents(st, cid) ==
    Cardinality({e \in Events(st) : e.conversation_id = Some(cid)})

\* The media subquery with the comparison to '[]' turned around.
CountMediaEventsNegated(st, cid) ==
    Cardinality({e \in Events(st) : /\ e.conversation_id = Some(cid)
                                   /\ e.media_references = EmptyJsonArray})

\* (SELECT COUNT(*) FROM events WHERE conversation_id = c.id AND
\*  media_references != '[]' AND media_references IS NOT NULL) (db.rs:297);
\* the column is never NULL, batch_insert_events always binds a text.
CountMediaEvents(st, cid) ==
    Cardinality({e \in Events(st) : /\ e.conversation_id = Some(cid)
                                   /\ e.media_references # EmptyJsonArray})

\* get_conversations (db.rs:291-333): one Conversation per row of
\* conversations.  The result is kept as a set: the order of the rows
\* (ORDER BY c.last_event_at DESC) and the participants column are left out.
get_conversations(st) ==
    {[id            |-> c.id,
      display_name  |-> IF IsSome(PersonDisplayName(st, c.id))
                        THEN PersonDisplayName(st, c.id)
                        ELSE c.display_name,
      last_event_at |-> IF IsSome(c.last_event_at)
                        THEN parse_from_rfc3339(Unwrap(c.last_event_at))
                        ELSE None,
      message_count |-> CountEvents(st, c.id),
      has_media     |-> CountMediaEvents(st, c.id) > 0] : c \in st.conversations}

\* The Event built from one row of the SELECT of get_messages and
\* get_messages_page (db.rs:446-469, 499-522).
EventFromRow(st, row) ==
    [id               |-> row.id,
     timestamp        |-> IF IsSome(parse_from_rfc3339(row.timestamp))
                          THEN Unwrap(parse_from_rfc3339(row.timestamp))
                          ELSE MIN_UTC,
     sender           |-> row.sender,
     sender_name      |-> PersonDisplayName(st, row.sender),
     media_references |-> media_references_from_json(row.media_references),
     conversation_id  |-> row.conversation_id,
     content          |-> row.content,
     event_type       |-> row.event_type,
     metadata         |-> row.metadata]

\* The order of two stored timestamp texts under ORDER BY e.timestamp ASC:
\* RFC 3339 texts of UTC instants compare as the instants do.
TimestampTextLeq(a, b) == a[2] <= b[2]

\* The orders in which "ORDER BY e.timestamp ASC" may return a set of rows,
\* each built from a least row and an order of the others:
\* every arrangement that is non-decreasing in timestamp (rows with equal
\* timestamps come in an order SQLite does not promise).
RECURSIVE OrderedByTimestamp(_)
OrderedByTimestamp(rows) ==
    IF rows = {} THEN {<< >>}
    ELSE LET first == {r \in rows : \A q \in rows : TimestampTextLeq(r.timestamp, q.timestamp)}
         IN  UNION {{<<r>> \o s : s \in OrderedByTimestamp(rows \ {r})} : r \in first}

\* offset.max(0) (db.rs:480)
ClampOffset(offset) == Max(offset, 0)

\* limit.clamp(1, 2000) (db.rs:481)
ClampPageLimit(limit) == Min(Max(limit, 1), PageLimitMax)

\* "LIMIT ?2 OFFSET ?3" on the ordered rows.
LimitOffset(rows, limit, offset) ==
    IF offset >= Len(rows) THEN << >>
    ELSE SubSeq(rows, offset + 1, Min(Len(rows), offset + Min(limit, Len(rows))))

\* a + b in i32 when the sum does not fit: the wrapped value, a + b - 2^32.
WrappingAdd(a, b) ==
    IF b > 0 /\ a > I32Max - b THEN (a - I32Max - 1) + (b - I32Max - 1)
    ELSE a + b

\* Whether a + b overflows i32 (both operands are >= 0 here).
AddOverflows(a, b) == b > 0 /\ a > I32Max - b


\* limit.clamp(1, 500) (db.rs:559)
ClampSearchLimit(limit) == Min(Max(limit, 1), SearchLimitMax)

\* The rows of the index, each named by its event_id and its place among
\* the rows with that event_id.
FtsRows(st) ==
    UNION {{<<id, k>> : k \in 1..Len(st.events_fts[id])} : id \in DOMAIN st.events_fts}

\* The rows of events_fts selected by
\*   FROM events_fts f JOIN events e ON e.id = f.event_id
\*   WHERE events_fts MATCH ?1                      (db.rs:565-569)
SearchMatches(st, phrases) ==
    LET terms == FtsTerms(phrases)
    IN  {r \in FtsRows(st) :
            /\ r[1] \in EventIds(st)
            /\ FtsMatches(terms, st.events_fts[r[1]][r[2]].content)}

\* The number of places where toks occurs in doc as consecutive tokens.
PhraseCount(toks, doc) ==
    Cardinality({k \in 0..(Len(doc) - Len(toks)) :
                    \A j \in 1..Len(toks) : doc[k + j] = toks[j]})

\* What the bm25 rank of a row depends on when the query is one phrase: how
\* often the phrase occurs in the row and how many tokens the row has.
RankKey(phrases, content) ==
    LET terms == FtsTerms(phrases)
    IN  IF Len(terms) = 1
        THEN <<PhraseCount(terms[1], Tokenize(content)), Len(Tokenize(content))>>
        ELSE <<0, 0>>

\* bm25 grows with the number of occurrences and falls with the length of
\* the row: a row with at least as many occurrences in at most as many
\* tokens, and not the same of both, has the better rank.  Of every other
\* pair of rows the order is left open.
RanksBefore(ka, kb) == ka[1] >= kb[1] /\ ka[2] <= kb[2] /\ ka # kb

RECURSIVE KSubsets(_, _)
\* The subsets of S with m elements.
KSubsets(S, m) ==
    IF m = 0 THEN {{}}
    ELSE IF m > Cardinality(S) THEN {}
    ELSE LET x == CHOOSE x \in S : TRUE
         IN  KSubsets(S \ {x}, m) \cup {T \cup {x} : T \in KSubsets(S \ {x}, m - 1)}

\* "ORDER BY rank LIMIT ?2" (db.rs:570-571): the sets of rows that may be
\* returned.  All rows when they fit the limit; otherwise k rows such that
\* no row left out has a better rank than a row returned.
TopByRank(st, phrases, rows, k) ==
    LET keyed == {<<r, RankKey(phrases, st.events_fts[r[1]][r[2]].content)>> : r \in rows}
        keys == {p[2] : p \in keyed}
        nWorse(ka) == Cardinality({p \in keyed : RanksBefore(ka, p[2])})
        nBetter(ka) == Cardinality({p \in keyed : RanksBefore(p[2], ka)})
        \* keys of rows that are returned whatever the order of the rest
        keysIn == {ka \in keys : nWorse(ka) >= Cardinality(rows) - k}
        \* keys of rows that are never returned
        keysOut == {ka \in keys : nBetter(ka) >= k}
        forcedIn == {p[1] : p \in {q \in keyed : q[2] \in keysIn}}
        free == {q \in keyed : q[2] \notin keysIn \cup keysOut}
        picks == {forcedIn \cup {p[1] : p \in T} :
                     T \in {U \in KSubsets(free, k - Cardinality(forcedIn)) :
                               \A p \in U, q \in free \ U : ~RanksBefore(q[2], p[2])}}
    IN  IF Cardinality(rows) <= k THEN {rows} ELSE picks

(***************************************************************************)
(* Operations of the store as actions.  Each takes its arguments from the  *)
(* set it is given; resp is what the caller gets back.                     *)
(***************************************************************************)
InsertExport(exports) ==
    \E x \in exports :
        /\ store' = insert_export(store, x)
        /\ resp' = [op |-> "insert_export"]
        /\ UNCHANGED <<linker, zip, run, downloader, pool, data_dir, txn, peer>>

InsertPeopleAct(lists) ==
    \E ps \in lists :
        /\ store' = insert_people(store, ps)
        /\ resp' = [op |-> "insert_people"]
        /\ UNCHANGED <<linker, zip, run, downloader, pool, data_dir, txn, peer>>

BatchInsertConversations(lists) ==
    \E cs \in lists :
        /\ store' = batch_insert_conversations(store, cs)
        /\ resp' = [op |-> "batch_insert_conversations"]
        /\ UNCHANGED <<linker, zip, run, downloader, pool, data_dir, txn, peer>>

BatchInsertEvents(batches, exportIds) ==
    \E batch \in batches, xid \in exportIds :
        LET r == batch_insert_events(store, batch, xid)
        IN  /\ store' = r.st
            /\ resp' = [op |-> "batch_insert_events", ok |-> r.ok, events |-> batch]
            /\ UNCHANGED <<linker, zip, run, downloader, pool, data_dir, txn, peer>>

GetConversations ==
    /\ resp' = [op |-> "get_conversations", conversations |-> get_conversations(store)]
    /\ UNCHANGED <<store, linker, zip, run, downloader, pool, data_dir, txn, peer>>

\* get_messages (db.rs:436-477)
GetMessages(conversationIds) ==
    \E cid \in conversationIds :
        /\ \E ordered \in OrderedByTimestamp({e \in Events(store) : e.conversation_id = Some(cid)}) :
               resp' = [op |-> "get_messages", status |-> "ok", conversation_id |-> cid,
                        messages |-> [k \in 1..Len(ordered) |-> EventFromRow(store, ordered[k])]]
        /\ UNCHANGED <<store, linker, zip, run, downloader, pool, data_dir, txn, peer>>

\* get_messages_page (db.rs:479-536).  The sum offset + limit of db.rs:529
\* is an i32 addition: when it overflows, a build with overflow checks
\* panics and a build without them wraps.
GetMessagesPage(conversationIds, offsets, limits) ==
    \E cid \in conversationIds, offset \in offsets, limit \in limits :
        LET off == ClampOffset(offset)
            lim == ClampPageLimit(limit)
            rows == {e \in Events(store) : e.conversation_id = Some(cid)}
            total_count == Cardinality(rows)
        IN  /\ \E ordered \in OrderedByTimestamp(rows) :
                   LET page == LimitOffset(ordered, lim, off)
                       ok(has_more) ==
                           [op |-> "get_messages_page", status |-> "ok",
                            conversation_id |-> cid, offset |-> offset, limit |-> limit,
                            messages |-> [k \in 1..Len(page) |-> EventFromRow(store, page[k])],
                            total_count |-> total_count, has_more |-> has_more]
                   IN  IF AddOverflows(off, lim)
                       THEN \/ resp' = [op |-> "get_messages_page", status |-> "panic",
                                        conversation_id |-> cid, offset |-> offset,
                                        limit |-> limit]
                            \/ resp' = ok(WrappingAdd(off, lim) < total_count)
                       ELSE resp' = ok(off + lim < total_count)
            /\ UNCHANGED <<store, linker, zip, run, downloader, pool, data_dir, txn, peer>>

\* search_messages (db.rs:553-598).  conn and sql record whether the call
\* took a pooled connection (db.rs:561) and ran the statement.
SearchMessages(queries, limits) ==
    \E query \in queries, limit \in limits :
        LET sanitized == sanitize_fts_query(query)
            lim == ClampSearchLimit(limit)
            parsed == FtsQuery(sanitized)
            answer(status, rows, touched) ==
                [op |-> "search_messages", status |-> status, query |-> query,
                 limit |-> limit, sanitized |-> sanitized,
                 results |-> {[event_id |-> store.events_fts[r[1]][r[2]].event_id,
                               content |-> store.events_fts[r[1]][r[2]].content,
                               timestamp |-> EventFromRow(store, store.events[r[1]]).timestamp] :
                                  r \in rows},
                 conn |-> touched, sql |-> touched]
        IN  /\ IF sanitized = << >>
               THEN resp' = answer("ok", {}, FALSE)
               ELSE IF ~parsed.ok
               THEN resp' = answer("err", {}, TRUE)
               ELSE \E sel \in TopByRank(store, parsed.phrases, SearchMatches(store, parsed.phrases), lim) :
                        resp' = answer("ok", sel, TRUE)
            /\ UNCHANGED <<store, linker, zip, run, downloader, pool, data_dir, txn, peer>>

InitStore ==
    /\ store = EmptyStore
    /\ resp = NoResp
    /\ data_dir = Idle
    /\ txn = Idle
    /\ peer = Idle
    /\ pool = Idle
    /\ downloader = Idle
    /\ linker = Idle
    /\ zip = Idle
    /\ run = Idle


(***************************************************************************)
(* Inputs of the store specifications.                                     *)
(***************************************************************************)
\* The longest batch handed to batch_insert_events.
MaxBatch == 2

\* All sequences over S of length 1..n.
SeqsUpTo(S, n) == UNION {[1..k -> S] : k \in 1..n}

TheExport ==
    [id |-> "x1", source_path |-> <<"s", "x1">>, source_type |-> "Folder",
     validation_status |-> "Valid"]

\* An Event (models.rs:65-82).
Ev(id, conv, sender, ts, type, content, refs, metadata) ==
    [id |-> id, timestamp |-> ts, sender |-> sender, sender_name |-> None,
     media_references |-> refs, conversation_id |-> conv, content |-> content,
     event_type |-> type, metadata |-> metadata]

\* A Conversation (models.rs:49-61) as the JSON and HTML phases first make it.
Conv(id, display_name, last_event_at, message_count) ==
    [id |-> id, display_name |-> display_name, participants |-> << >>,
     last_event_at |-> last_event_at, message_count |-> message_count,
     has_media |-> FALSE]

ConvLists == {<<Conv("c1", None, None, 0)>>, <<Conv("c2", None, None, 0)>>}

\* Events that differ in conversation and media references; the numbers
\* stand for the UUID strings of the callers.
MediaEvents ==
    {Ev(1, Some("c1"), "a", 0, "MEDIA", None, << >>, None),
     Ev(1, Some("c1"), "a", 0, "MEDIA", None, <<"p1">>, None),
     Ev(1, Some("c2"), "a", 0, "MEDIA", None, <<NonUtf8Path>>, None),
     Ev(2, Some("c2"), "a", 0, "MEDIA", None, <<"p1", "p2">>, None),
     Ev(2, Some("c1"), "a", 0, "MEDIA", None, << >>, None)}

\* Events that differ in content: absent, blank, and with a word.
ContentEvents ==
    {Ev(1, None, "a", 0, "TEXT", None, << >>, None),
     Ev(1, None, "a", 0, "TEXT", Some(<<" ">>), << >>, None),
     Ev(1, None, "a", 0, "TEXT", Some(<<"a">>), << >>, None),
     Ev(2, None, "a", 0, "TEXT", Some(<<"a">>), << >>, None),
     Ev(2, None, "a", 0, "TEXT", Some(<<"b">>), << >>, None)}

(***************************************************************************)
(* SpecStore: conversations and events with media references are written   *)
(* and the conversation list is read.                                      *)
(***************************************************************************)
NextStore ==
    \/ InsertExport({TheExport})
    \/ BatchInsertConversations(ConvLists)
    \/ BatchInsertEvents(SeqsUpTo(MediaEvents, MaxBatch), {"x1"})
    \/ GetConversations

SpecStore == InitStore /\ [][NextStore]_vars

(***************************************************************************)
(* SpecFts: events with and without content are written.                   *)
(***************************************************************************)
NextFts ==
    \/ InsertExport({TheExport})
    \/ BatchInsertEvents(SeqsUpTo(ContentEvents, MaxBatch), {"x1"})

SpecFts == InitStore /\ [][NextFts]_vars

\* C3: for every conversation returned by get_conversations, has_media is
\* true if and only if at least one stored event with that conversation id
\* has a non-empty media_references list.
C3_HasMediaIffSomeEventHasMedia ==
    resp.op = "get_conversations" =>
        \A c \in resp.conversations :
            c.has_media <=>
                \E e \in Events(store) :
                    /\ e.conversation_id = Some(c.id)
                    /\ Len(media_references_from_json(e.media_references)) > 0

\* Witness of C3: the list was read while one conversation had an event with
\* media references and another conversation had only events without.
C3_Witness ==
    /\ resp.op = "get_conversations"
    /\ \E c \in resp.conversations : c.has_media
    /\ \E c \in resp.conversations :
          /\ ~c.has_media
          /\ \E e \in Events(store) : e.conversation_id = Some(c.id)

\* The number of rows of the full-text index stored for one event id.
FtsRowsOf(id) == Cardinality({r \in FtsRows(store) : r[1] = id})

PageEvents ==
    {Ev(1, Some("c1"), "a", 1, "TEXT", Some(<<"a">>), << >>, None),
     Ev(2, Some("c1"), "a", 0, "TEXT", Some(<<"b">>), << >>, None),
     Ev(3, Some("c1"), "b", 1, "TEXT", None, << >>, None)}

\* Offsets and limits over the whole range of i32.
PageOffsets == {I32Min, -1, 0, 1, 2, 3, I32Max - PageLimitMax, I32Max - PageLimitMax + 1, I32Max}

PageLimits == {I32Min, -1, 0, 1, 2, PageLimitMax, PageLimitMax + 1, I32Max}

NextPage ==
    \/ InsertExport({TheExport})
    \/ BatchInsertConversations({<<Conv("c1", None, None, 0)>>})
    \/ BatchInsertEvents(SeqsUpTo(PageEvents, MaxBatch), {"x1"})
    \/ GetMessagesPage({"c1", "c2"}, PageOffsets, PageLimits)

SpecPage == InitStore /\ [][NextPage]_vars

\* C8: get_messages_page never fails for any i32 offset and limit: a negative
\* offset is treated as 0, a limit below 1 as 1 and a limit above 2000 as
\* 2000, and has_more is true exactly when the clamped offset plus the
\* clamped limit is less than the number of events of the conversation.
\* (off + lim < total is written off < total - lim, which stays in range.)
C8_PageNeverFailsHasMoreExact ==
    resp.op = "get_messages_page" =>
        LET off == IF resp.offset < 0 THEN 0 ELSE resp.offset
            lim == IF resp.limit < 1 THEN 1
                   ELSE IF resp.limit > 2000 THEN 2000 ELSE resp.limit
            total == Cardinality({e \in Events(store) :
                                     e.conversation_id = Some(resp.conversation_id)})
        IN  /\ resp.status = "ok"
            /\ resp.total_count = total
            /\ Len(resp.messages) = Min(lim, Max(total - off, 0))
            /\ resp.has_more = (off < total - lim)


(***************************************************************************)
(* SpecSearch: events with content are written, among them one batch that  *)
(* alone fills a whole result page, and single words are searched.         *)
(***************************************************************************)
SearchEvents ==
    {Ev(1, None, "a", 0, "TEXT", Some(<<"b", " ", "-">>), << >>, None),
     Ev(1, None, "a", 0, "TEXT", Some(<<"a", " ", "b">>), << >>, None),
     Ev(2, None, "a", 0, "TEXT", Some(<<"b", " ", "a">>), << >>, None)}

\* SearchLimitMax events with the one-word content "a".
BulkEvents ==
    [k \in 1..SearchLimitMax |-> Ev(2 + k, None, "a", 0, "TEXT", Some(<<"a">>), << >>, None)]

\* Single words, a blank query and a query of two words.
SearchQueries == {<< >>, <<"a">>, <<"b">>, <<"-">>, <<"b", " ", "a">>}

\* Limits at and above the largest page of search_messages.
SearchLimits == {SearchLimitMax, SearchLimitMax + 2}

NextSearch ==
    \/ InsertExport({TheExport})
    \/ BatchInsertEvents(SeqsUpTo(SearchEvents, MaxBatch) \cup {BulkEvents}, {"x1"})
    \/ SearchMessages(SearchQueries, SearchLimits)

SpecSearch == InitStore /\ [][NextSearch]_vars


(***************************************************************************)
(* SpecSanitize: every short query over letters, quotes, spaces and stars  *)
(* is searched in a small store.                                           *)
(***************************************************************************)
MaxQueryLen == 3

QueryChars == {"a", Quote, Space, "*"}

SanitizeQueries == {<< >>} \cup SeqsUpTo(QueryChars, MaxQueryLen)

NextSanitize ==
    \/ InsertExport({TheExport})
    \/ BatchInsertEvents({<<Ev(1, None, "a", 0, "TEXT", Some(<<"a", " ", "*">>), << >>, None)>>}, {"x1"})
    \/ SearchMessages(SanitizeQueries, {-1, 50})

SpecSanitize == InitStore /\ [][NextSanitize]_vars

\* The places of q where a whitespace-separated word starts.
WordStarts(q) == {i \in 1..Len(q) : ~IsWhitespace(q[i]) /\ (i = 1 \/ IsWhitespace(q[i - 1]))}

\* The word of q that starts at place i.
WordAt(q, i) ==
    LET last == CHOOSE j \in i..Len(q) :
                    /\ \A k \in i..j : ~IsWhitespace(q[k])
                    /\ j = Len(q) \/ IsWhitespace(q[j + 1])
    IN  SubSeq(q, i, last)

\* The whitespace-separated words of q, in order.
WordsOf(q) ==
    [n \in 1..Cardinality(WordStarts(q)) |->
        WordAt(q, CHOOSE i \in WordStarts(q) :
                      Cardinality({j \in WordStarts(q) : j < i}) = n - 1)]

\* w with every double quote doubled, wrapped in double quotes.
Wrapped(w) ==
    <<Quote>> \o Concat([i \in 1..Len(w) |-> IF w[i] = Quote THEN <<Quote, Quote>> ELSE <<w[i]>>])
              \o <<Quote>>

\* The wrapped words with one space between neighbours.
WrappedWords(ws) ==
    Concat([k \in 1..(2 * Len(ws) - 1) |->
               IF k % 2 = 1 THEN Wrapped(ws[(k + 1) \div 2]) ELSE <<Space>>])

\* The places of s outside a quoted term: an even number of quotes precedes.
OutsideQuotes(s) ==
    {i \in 1..Len(s) : s[i] # Quote /\ Cardinality({j \in 1..(i - 1) : s[j] = Quote}) % 2 = 0}

\* C7: the sanitized query is the whitespace-separated words of the query,
\* each with its double quotes doubled and wrapped in double quotes, joined
\* by single spaces, so that outside a quoted term there is nothing but the
\* joining spaces and FTS5 reads every word back as one string; for a query
\* without words it is empty and search_messages returns an empty result
\* without taking a connection or running SQL.
C7_SanitizedIsQuotedWords ==
    resp.op = "search_messages" =>
        LET words == WordsOf(resp.query)
        IN  /\ resp.sanitized = WrappedWords(words)
            /\ \A i \in OutsideQuotes(resp.sanitized) : resp.sanitized[i] = Space
            /\ FtsQuery(resp.sanitized) = [ok |-> TRUE, phrases |-> words]
            /\ words = << >> =>
                  /\ resp.sanitized = << >>
                  /\ resp.status = "ok" /\ resp.results = {}
                  /\ ~resp.conn /\ ~resp.sql
            /\ words # << >> => resp.conn /\ resp.sql

\* Witness of C7: a query of two words with a quote and a star was searched.
C7_Witness ==
    /\ resp.op = "search_messages"
    /\ Len(WordsOf(resp.query)) = 2
    /\ {Quote, "*"} \subseteq Range(resp.query)
    /\ resp.status = "ok"

\* The events of the store that the search of resp must return under C6: the
\* query is a single word, the event has non-empty content, and the word is
\* one of the whitespace-separated words of that content.
EventsHoldingQueryWord ==
    {id \in DOMAIN store.events :
        /\ Len(WordsOf(resp.query)) = 1
        /\ IsSome(store.events[id].content)
        /\ Unwrap(store.events[id].content) # << >>
        /\ WordsOf(resp.query)[1] \in Range(WordsOf(Unwrap(store.events[id].content)))}

\* The number of events the search of resp matches.
MatchingEvents == Cardinality(SearchMatches(store, FtsQuery(resp.sanitized).phrases))

\* C6 as stated: after batch_insert_events stored an event with non-empty
\* content, search_messages with any single word of that content and a limit
\* not smaller than the number of matching events returns the event's id.
C6_SearchReturnsEveryHolder ==
    (resp.op = "search_messages" /\ resp.limit >= MatchingEvents) =>
        \A id \in EventsHoldingQueryWord :
            /\ resp.status = "ok"
            /\ id \in {r.event_id : r \in resp.results}

\* C6 amended: the same for a word that holds at least one letter or digit,
\* when the number of matching events is at most the limit clamped to
\* 1..500.
C6_SearchReturnsHolderOfTokenWord ==
    (/\ resp.op = "search_messages"
     /\ MatchingEvents <= (IF resp.limit < 1 THEN 1 ELSE IF resp.limit > 500 THEN 500 ELSE resp.limit)
     /\ \E w \in Range(WordsOf(resp.query)) : \E i \in 1..Len(w) : IsTokenChar(w[i])) =>
        \A id \in EventsHoldingQueryWord :
            /\ resp.status = "ok"
            /\ id \in {r.event_id : r \in resp.results}

\* Witness of C6: a word was searched with a limit above 500 while exactly
\* 500 events held it, and all of them were returned.
C6_Witness ==
    /\ resp.op = "search_messages"
    /\ resp.limit > SearchLimitMax
    /\ Cardinality(EventsHoldingQueryWord) = SearchLimitMax
    /\ MatchingEvents = SearchLimitMax
    /\ EventsHoldingQueryWord \subseteq {r.event_id : r \in resp.results}


(***************************************************************************)
(* Event metadata: the text of a JSON object, or a text that is no JSON.   *)
(* An item of the media_ids array is <<kind, value>>.                      *)
(***************************************************************************)
JStr(v) == <<"str", v>>

JNum(v) == <<"num", v>>

\* serde_json::to_string of the map the parsers build (parser.rs:298-307,
\* 380-384): media_ids and conversation_title are optional keys.
JsonObject(media_ids, conversation_title, is_sender) ==
    [valid |-> TRUE, media_ids |-> media_ids,
     conversation_title |-> conversation_title, is_sender |-> is_sender]

\* A text that serde_json::from_str rejects.
NotJson ==
    [valid |-> FALSE, media_ids |-> None, conversation_title |-> None, is_sender |-> FALSE]

(***************************************************************************)
(* MediaLinker (media_linker.rs).  id_map is a set of [id, path] with one  *)
(* path per id; files is the set of paths that exist on disk.              *)
(***************************************************************************)
\* extract_media_ids (media_linker.rs:135-152): the string items of the
\* media_ids array; nothing for no metadata, no JSON, no such key.
extract_media_ids(metadata) ==
    IF ~IsSome(metadata) THEN << >>
    ELSE IF ~Unwrap(metadata).valid THEN << >>
    ELSE IF ~IsSome(Unwrap(metadata).media_ids) THEN << >>
    ELSE LET arr == Unwrap(Unwrap(metadata).media_ids)
             strs == SelectSeq(arr, LAMBDA v : v[1] = "str")
         IN  [k \in 1..Len(strs) |-> strs[k][2]]

MediaEventTypes == {"MEDIA", "NOTE", "SNAP", "SNAP_VIDEO", "STICKER"}

\* The paths pushed for one event without the test that the file exists.
LinkedPathsAnyFile(e, id_map, files) ==
    LET ids == extract_media_ids(e.metadata)
        hit == SelectSeq(ids, LAMBDA mid : \E m \in id_map : m.id = mid)
    IN  [k \in 1..Len(hit) |-> (CHOOSE m \in id_map : m.id = hit[k]).path]

\* The paths pushed for one event (media_linker.rs:105-115): for each media
\* id in order, the mapped path if the id is mapped and the file exists.
LinkedPaths(e, id_map, files) ==
    LET ids == extract_media_ids(e.metadata)
        hit == SelectSeq(ids, LAMBDA mid : \E m \in id_map : m.id = mid /\ m.path \in files)
    IN  [k \in 1..Len(hit) |-> (CHOOSE m \in id_map : m.id = hit[k]).path]

\* One iteration of the loop without the test for an already linked event.
LinkEventNoSkip(e, id_map, files) ==
    IF e.event_type \notin MediaEventTypes THEN e
    ELSE [e EXCEPT !.media_references = @ \o LinkedPaths(e, id_map, files)]

\* One iteration of the loop of link_media (media_linker.rs:84-122).
LinkEvent(e, id_map, files) ==
    IF e.media_references # << >> THEN e
    ELSE IF e.event_type \notin MediaEventTypes THEN e
    ELSE [e EXCEPT !.media_references = @ \o LinkedPaths(e, id_map, files)]

\* link_media (media_linker.rs:78-126)
link_media(events, id_map, files) ==
    [k \in 1..Len(events) |-> LinkEvent(events[k], id_map, files)]

\* linker.link_media(&mut events) on the events the caller holds.
LinkMedia(maxPasses) ==
    /\ linker.pc = "ready"
    /\ linker.passes < maxPasses
    /\ linker' = [linker EXCEPT !.events = link_media(@, linker.id_map, linker.files),
                                !.passes = @ + 1]
    /\ UNCHANGED <<store, resp, zip, run, downloader, pool, data_dir, txn, peer>>

(***************************************************************************)
(* SpecLink: link_media is run again and again on one list of events with  *)
(* one media-id map and one set of files.                                  *)
(***************************************************************************)
MaxLinkEvents == 2

MaxLinkPasses == 2

Meta(ids) == Some(JsonObject(Some(ids), None, TRUE))

LinkEventPool ==
    {Ev(0, Some("c1"), "a", 0, "MEDIA", None, << >>, None),
     Ev(0, Some("c1"), "a", 0, "MEDIA", None, << >>, Some(NotJson)),
     Ev(0, Some("c1"), "a", 0, "MEDIA", None, << >>, Meta(<<JStr("m1")>>)),
     Ev(0, Some("c1"), "a", 0, "NOTE", None, << >>, Meta(<<JStr("m1"), JStr("m2")>>)),
     Ev(0, Some("c1"), "a", 0, "SNAP_VIDEO", None, << >>, Meta(<<JNum("m1"), JStr("m2")>>)),
     Ev(0, Some("c1"), "a", 0, "TEXT", None, << >>, Meta(<<JStr("m1")>>)),
     Ev(0, Some("c1"), "a", 0, "SNAP", None, <<"/old">>, Meta(<<JStr("m1")>>)),
     Ev(0, Some("c1"), "a", 0, "STICKER", None, << >>, Some(JsonObject(None, None, FALSE)))}

LinkIdMaps ==
    {{},
     {[id |-> "m1", path |-> "/p1"]},
     {[id |-> "m1", path |-> "/p1"], [id |-> "m2", path |-> "/p2"]},
     {[id |-> "m1", path |-> "/p1"], [id |-> "m2", path |-> "/p1"]}}

InitLink ==
    /\ store = EmptyStore
    /\ resp = NoResp
    /\ data_dir = Idle
    /\ txn = Idle
    /\ peer = Idle
    /\ pool = Idle
    /\ downloader = Idle
    /\ zip = Idle
    /\ run = Idle
    /\ \E events \in SeqsUpTo(LinkEventPool, MaxLinkEvents), id_map \in LinkIdMaps,
          files \in SUBSET {"/p1", "/p2"} :
          linker = [pc |-> "ready", input |-> events, events |-> events,
                    id_map |-> id_map, files |-> files, passes |-> 0]

NextLink == LinkMedia(MaxLinkPasses)

SpecLink == InitLink /\ [][NextLink]_vars

\* C9: link_media is idempotent: with the media-id map and the files
\* unchanged, two runs leave every event, its media_references included, as
\* one run leaves it.
C9_LinkMediaIdempotent ==
    (linker.pc = "ready" /\ linker.passes >= 2) =>
        LET once == link_media(linker.input, linker.id_map, linker.files)
        IN  /\ linker.events = once
            /\ \A k \in 1..Len(once) :
                  linker.events[k].media_references = once[k].media_references

\* Witness of C9: after two runs an event that came without references has
\* the two that the map and the disk give it.
C9_Witness ==
    /\ linker.pc = "ready" /\ linker.passes = 2
    /\ \E k \in 1..Len(linker.events) :
          /\ linker.input[k].media_references = << >>
          /\ Len(linker.events[k].media_references) = 2


(***************************************************************************)
(* ZipExtractor::extract (ingestion/extractor.rs).                         *)
(* An entry name is the sequence of its pieces, "/" being a piece of its   *)
(* own: a/b is <<"a", "/", "b">>.  A path on disk is the sequence of its   *)
(* components from the root.  The disk is [dirs, files], two sets of       *)
(* paths.  Sizes are counted in GiB.                                       *)
(***************************************************************************)
MAX_TOTAL_SIZE == 500

Slash == "/"

\* Path::components of an entry name: the pieces between the slashes, "."
\* dropped.
Components(name) == SelectSeq(name, LAMBDA c : c # Slash /\ c # ".")

IsAbsolute(name) == name # << >> /\ name[1] = Slash

\* file.name().ends_with('/')
EndsWithSlash(name) == name # << >> /\ name[Len(name)] = Slash

\* The depth reached after each component, None once it drops below zero.
RECURSIVE DepthAfter(_, _)
DepthAfter(comps, depth) ==
    IF comps = << >> THEN Some(depth)
    ELSE IF Head(comps) = ".."
         THEN IF depth = 0 THEN None ELSE DepthAfter(Tail(comps), depth - 1)
         ELSE DepthAfter(Tail(comps), depth + 1)

\* An enclosed_name that accepts every name.
enclosed_name_unchecked(name) == Some(name)

\* ZipFile::enclosed_name (zip crate), called at extractor.rs:58: None for an
\* absolute name and for a name whose ".." climb above its start.
enclosed_name(name) ==
    IF IsAbsolute(name) THEN None
    ELSE IF ~IsSome(DepthAfter(Components(name), 0)) THEN None
    ELSE Some(name)

\* Path::join: an absolute name replaces the base.
PathJoin(base, name) ==
    IF IsAbsolute(name) THEN Components(name) ELSE base \o Components(name)

\* The place on disk a path names: ".." steps to the parent, the root is its
\* own parent.
RECURSIVE Resolve(_)
Resolve(path) ==
    IF path = << >> THEN << >>
    ELSE LET front == Resolve(SubSeq(path, 1, Len(path) - 1))
             last == path[Len(path)]
         IN  IF last = ".."
             THEN IF front = << >> THEN << >> ELSE SubSeq(front, 1, Len(front) - 1)
             ELSE Append(front, last)

\* Path::parent
Parent(path) == IF path = << >> THEN None ELSE Some(SubSeq(path, 1, Len(path) - 1))

Prefixes(path) == {Resolve(SubSeq(path, 1, k)) : k \in 0..Len(path)}

\* Path::exists
PathExists(disk, path) ==
    /\ Resolve(path) \in disk.dirs \cup disk.files
    /\ \A q \in Prefixes(SubSeq(path, 1, Len(path) - 1)) : q \in disk.dirs

\* fs::create_dir_all: every missing directory on the way is made; fails on
\* a file in the way.
create_dir_all(disk, path) ==
    IF \E q \in Prefixes(path) : q \in disk.files
    THEN [ok |-> FALSE, disk |-> disk, made |-> {}]
    ELSE [ok |-> TRUE, disk |-> [disk EXCEPT !.dirs = @ \cup Prefixes(path)],
          made |-> Prefixes(path) \ disk.dirs]

\* fs::File::create followed by io::copy: fails on a directory and when the
\* parent is no directory; an existing file is truncated and rewritten.
file_create(disk, path) ==
    IF \/ Resolve(path) \in disk.dirs
       \/ path = << >>
       \/ \E q \in Prefixes(SubSeq(path, 1, Len(path) - 1)) : q \notin disk.dirs
    THEN [ok |-> FALSE, disk |-> disk, made |-> {}]
    ELSE [ok |-> TRUE, disk |-> [disk EXCEPT !.files = @ \cup {Resolve(path)}],
          made |-> {Resolve(path)}]

\* The body of the entry loop after the size test (extractor.rs:58-78).
ExtractEntry(disk, extraction_path, name) ==
    LET enclosed == enclosed_name(name) IN
    IF ~IsSome(enclosed) THEN [ok |-> TRUE, disk |-> disk, made |-> {}, skipped |-> TRUE]
    ELSE LET outpath == PathJoin(extraction_path, Unwrap(enclosed)) IN
         IF EndsWithSlash(name)
         THEN create_dir_all(disk, outpath) @@ [skipped |-> FALSE]
         ELSE LET p == Parent(outpath)
                  dir == IF IsSome(p) /\ ~PathExists(disk, Unwrap(p))
                         THEN create_dir_all(disk, Unwrap(p))
                         ELSE [ok |-> TRUE, disk |-> disk, made |-> {}]
              IN  IF ~dir.ok THEN dir @@ [skipped |-> FALSE]
                  ELSE LET out == file_create(dir.disk, outpath)
                       IN  [ok |-> out.ok, disk |-> out.disk,
                            made |-> dir.made \cup out.made, skipped |-> FALSE]

NoEntry == [name |-> << >>, size |-> 0, skipped |-> FALSE, made |-> {}]

\* The locals of extract before its first statement; disk is the file
\* system it works on.  written is the sum of the declared sizes of the
\* file entries written, as wraps * 2^64 + bytes; passed_over tells that
\* enclosed_name refused an entry; progress holds the events emitted, each
\* [step, num, den] for the fraction num / den.
NewZip(disk, target_dir, export_id, total_parts) ==
    [pc |-> "start", target_dir |-> target_dir, export_id |-> export_id,
     extraction_path |-> << >>, disk |-> disk, made |-> {},
     total_parts |-> total_parts, part_idx |-> 0,
     total_files_in_part |-> 0, entries_left |-> 0, total_bytes |-> 0,
     written |-> [wraps |-> 0, bytes |-> 0], passed_over |-> FALSE,
     progress |-> << >>,
     error |-> "", last |-> NoEntry]

\* extract, up to the loop over the parts (extractor.rs:17-28)
ZipStart ==
    /\ zip.pc = "start"
    /\ LET extraction_path == PathJoin(zip.target_dir, <<zip.export_id>>)
           dir == IF ~PathExists(zip.disk, extraction_path)
                  THEN create_dir_all(zip.disk, extraction_path)
                  ELSE [ok |-> TRUE, disk |-> zip.disk, made |-> {}]
       IN  zip' = [zip EXCEPT !.pc = IF dir.ok THEN "parts" ELSE "failed",
                              !.error = IF dir.ok THEN "" ELSE "Io",
                              !.extraction_path = extraction_path,
                              !.disk = dir.disk,
                              !.made = dir.made]
    /\ UNCHANGED <<store, resp, linker, run, downloader, pool, data_dir, txn, peer>>

\* The head of the loop over the parts (extractor.rs:30-43): a part that is
\* not there is passed over, one that is no archive ends the extraction.
ZipOpenPart(kinds, maxEntries) ==
    /\ zip.pc = "parts"
    /\ zip.part_idx < zip.total_parts
    /\ \E kind \in kinds, total_files_in_part \in 0..maxEntries :
          zip' = [zip EXCEPT
                    !.pc = CASE kind = "missing" -> "parts"
                             [] kind = "invalid" -> "failed"
                             [] OTHER -> IF total_files_in_part = 0 THEN "parts" ELSE "entries",
                    !.error = IF kind = "invalid" THEN "Parsing" ELSE "",
                    !.part_idx = @ + 1,
                    !.total_files_in_part = IF kind = "archive" THEN total_files_in_part ELSE 0,
                    !.entries_left = IF kind = "archive" THEN total_files_in_part ELSE 0,
                    !.last = NoEntry]
    /\ UNCHANGED <<store, resp, linker, run, downloader, pool, data_dir, txn, peer>>

\* The progress event of entry i of the part (extractor.rs:80-93), as the
\* fraction (part_idx + i / total_files_in_part) / total_parts * 0.10.
ExtractProgress(z, i) ==
    IF i % 100 = 0 \/ i = z.total_files_in_part - 1
    THEN <<[step |-> "Extracting",
            num |-> (z.part_idx - 1) * z.total_files_in_part + i,
            den |-> z.total_files_in_part * z.total_parts * 10]>>
    ELSE << >>

\* The entry loop from the size test on (extractor.rs:51-94), total_bytes
\* being the new total.
EntryChecked(z, name, size, total_bytes) ==
    LET out == ExtractEntry(z.disk, z.extraction_path, name)
        i == z.total_files_in_part - z.entries_left
        wrote == out.ok /\ ~out.skipped /\ ~EndsWithSlash(name)
    IN  [z EXCEPT
           !.pc = IF ~out.ok THEN "failed"
                  ELSE IF z.entries_left = 1 THEN "parts" ELSE "entries",
           !.error = IF out.ok THEN "" ELSE "Io",
           !.total_bytes = total_bytes,
           !.entries_left = @ - 1,
           !.disk = out.disk,
           !.made = @ \cup out.made,
           !.written = IF wrote
                       THEN [wraps |-> IF size < 0 THEN @.wraps + 1 ELSE @.wraps,
                             bytes |-> @.bytes + size]
                       ELSE @,
           !.passed_over = @ \/ out.skipped,
           !.progress = IF out.ok /\ ~out.skipped THEN @ \o ExtractProgress(z, i) ELSE @,
           !.last = [name |-> name, size |-> size, skipped |-> out.skipped,
                     made |-> out.made]]

\* One turn of the loop over the entries (extractor.rs:45-94).  A size
\* below zero, -k, stands for the declared size 2^64 - k of the u64 field:
\* "total_bytes += file.size()" then overflows when total_bytes >= k, which
\* panics in a build with overflow checks and leaves total_bytes - k in one
\* without; with total_bytes < k the sum is above every cap.
ZipEntry(names, sizes) ==
    /\ zip.pc = "entries"
    /\ \E name \in names, size \in sizes :
          LET over == [zip EXCEPT !.pc = "failed", !.error = "Validation",
                                  !.last = [NoEntry EXCEPT !.name = name, !.size = size]]
          IN  IF size >= 0
              THEN IF zip.total_bytes + size > MAX_TOTAL_SIZE
                   THEN zip' = over
                   ELSE zip' = EntryChecked(zip, name, size, zip.total_bytes + size)
              ELSE IF zip.total_bytes + size >= 0
                   THEN \/ zip' = [zip EXCEPT !.pc = "panicked", !.error = "panic",
                                     !.last = [NoEntry EXCEPT !.name = name, !.size = size]]
                        \/ zip' = EntryChecked(zip, name, size, zip.total_bytes + size)
                   ELSE zip' = over
    /\ UNCHANGED <<store, resp, linker, run, downloader, pool, data_dir, txn, peer>>

\* The loop over the parts is over (extractor.rs:97-99)
ZipFinish ==
    /\ zip.pc = "parts"
    /\ zip.part_idx = zip.total_parts
    /\ zip' = [zip EXCEPT !.pc = "done"]
    /\ UNCHANGED <<store, resp, linker, run, downloader, pool, data_dir, txn, peer>>


(***************************************************************************)
(* SpecZip: one extraction of up to MaxParts parts of up to MaxEntries     *)
(* entries each into <<"t", "x1">>.  process_export has created the target *)
(* directory before (lib.rs:76-80).                                        *)
(***************************************************************************)
MaxParts == 2

MaxEntries == 1

EntryNames ==
    {<<"a">>, <<"a", Slash>>, <<"a", Slash, "b">>, <<".", Slash, "a">>,
     <<"..", Slash, "x">>, <<Slash, "x">>, <<"..", Slash>>,
     <<"a", Slash, "..", Slash, "b">>,
     <<"a", Slash, "..", Slash, "..", Slash, "x">>}

EntrySizes == {6, MAX_TOTAL_SIZE, -1}

PartKinds == {"archive", "missing", "invalid"}

ZipDisks ==
    {[dirs |-> {<< >>, <<"t">>}, files |-> {}],
     [dirs |-> {<< >>, <<"t">>, <<"t", "x1">>}, files |-> {}],
     [dirs |-> {<< >>, <<"t">>, <<"t", "x1">>}, files |-> {<<"t", "x1", "a">>}],
     [dirs |-> {<< >>, <<"t">>}, files |-> {<<"t", "x">>}]}

InitZip ==
    /\ store = EmptyStore
    /\ resp = NoResp
    /\ data_dir = Idle
    /\ txn = Idle
    /\ peer = Idle
    /\ pool = Idle
    /\ downloader = Idle
    /\ linker = Idle
    /\ run = Idle
    /\ \E disk \in ZipDisks, total_parts \in 0..MaxParts :
          zip = NewZip(disk, <<"t">>, "x1", total_parts)

NextZip ==
    \/ ZipStart
    \/ ZipOpenPart(PartKinds, MaxEntries)
    \/ ZipEntry(EntryNames, EntrySizes)
    \/ ZipFinish

SpecZip == InitZip /\ [][NextZip]_vars

IsInside(path, dir) ==
    Len(path) >= Len(dir) /\ SubSeq(path, 1, Len(dir)) = dir

\* The number of ".." among the first k components exceeds the number of
\* named components among them.
ClimbsOut(name) ==
    LET comps == Components(name) IN
    \E k \in 1..Len(comps) :
        Cardinality({i \in 1..k : comps[i] = ".."}) >
            Cardinality({i \in 1..k : comps[i] # ".."})

\* C10: during an extraction nothing is created outside the working
\* directory target/<export_id>, and an entry whose name is absolute or
\* escapes through ".." creates nothing.
C10_NothingCreatedOutsideWorkingDir ==
    zip.pc \notin {"idle", "start"} =>
        /\ \A path \in zip.made : IsInside(path, <<"t", "x1">>)
        /\ (IsAbsolute(zip.last.name) \/ ClimbsOut(zip.last.name)) => zip.last.made = {}

\* Witness of C10: an extraction that has written a/b ends on an entry
\* ../x that was passed over.
C10_Witness ==
    /\ zip.pc = "done"
    /\ <<"t", "x1", "a", "b">> \in zip.disk.files
    /\ zip.last.name = <<"..", Slash, "x">>
    /\ zip.last.skipped

\* C12: the declared bytes of the entries written never exceed the cap that
\* applies, 5 GiB when a single archive is extracted and MAX_TOTAL_SIZE when
\* a group of parts is; extract knows one cap only (extractor.rs:28).
C12_WrittenWithinApplicableCap ==
    /\ zip.written.wraps = 0
    /\ zip.written.bytes <= (IF zip.total_parts = 1 THEN 5 ELSE MAX_TOTAL_SIZE)


(***************************************************************************)
(* reconstruct_from_path (lib.rs:101-493), the body of process_export.     *)
(* An export directory is given by what its files parse to:                *)
(*   [present, ok, data] for friends.json, chat_history.json,              *)
(*   snap_history.json and memories_history.json;                          *)
(*   html_dir (is there a chat_history directory) and html, one            *)
(*   [ok, conversation_id, events] per subpage_*.html;                     *)
(*   id_map, what MediaLinker finds in chat_media and media.               *)
(* run holds the locals of the function and where it stands.               *)
(***************************************************************************)
File(present, ok, data) == [present |-> present, ok |-> ok, data |-> data]

Absent == File(FALSE, FALSE, << >>)

Unparsable == File(TRUE, FALSE, << >>)

NoStep == [taken |-> FALSE, events |-> << >>, conversations |-> << >>,
           convo_key |-> "", json_event |-> Ev(0, None, "", 0, "", None, << >>, None)]

NoDir == [friends |-> Absent, html_dir |-> FALSE, html |-> << >>, chat_json |-> Absent,
          snap_json |-> Absent, memories_json |-> Absent, id_map |-> {}]

\* The locals at the top of reconstruct_from_path.  next_id stands for the
\* UUID generator, runs counts the calls of process_export.
NewRun(pc, next_id, runs) ==
    [pc |-> pc, export_id |-> "", dir |-> NoDir,
     all_conversations |-> << >>, all_events |-> << >>, all_memories |-> << >>,
     warnings |-> << >>, errors |-> << >>, parse_failures |-> 0,
     progress |-> << >>, json_queue |-> << >>, last_step |-> NoStep,
     result |-> None, next_id |-> next_id, runs |-> runs]

\* Uuid::new_v4() for each parsed item (parser.rs:83, 216, 322, 387)
WithIds(items, next_id) ==
    [k \in 1..Len(items) |-> [items[k] EXCEPT !.id = next_id + k - 1]]

Abs(n) == IF n < 0 THEN 0 - n ELSE n

\* The closure of find with its last condition left out.
MatchesAnyMetadata(existing, convo_key, json_event) ==
    /\ existing.conversation_id = Some(convo_key)
    /\ existing.sender = json_event.sender
    /\ Abs(existing.timestamp - json_event.timestamp) <= 2

\* The closure of find (lib.rs:253-258)
Matches(existing, convo_key, json_event) ==
    /\ existing.conversation_id = Some(convo_key)
    /\ existing.sender = json_event.sender
    /\ Abs(existing.timestamp - json_event.timestamp) <= 2
    /\ ~IsSome(existing.metadata)

\* all_events.iter_mut().find(...): the index of the first match, 0 for none.
FindMatch(events, convo_key, json_event) ==
    LET hits == {k \in 1..Len(events) : Matches(events[k], convo_key, json_event)}
    IN  IF hits = {} THEN 0 ELSE CHOOSE k \in hits : \A j \in hits : k <= j

\* The conversation_title of the metadata, if it is JSON and has one
\* (lib.rs:270-274).
ConversationTitle(metadata) ==
    IF IsSome(metadata) /\ Unwrap(metadata).valid
    THEN Unwrap(metadata).conversation_title
    ELSE None

\* A reconciliation that never makes a conversation.
EnsureConversationNever(conversations, convo_key, json_event) == conversations

\* "Ensure the conversation exists" (lib.rs:267-283)
EnsureConversation(conversations, convo_key, json_event) ==
    IF \E k \in 1..Len(conversations) : conversations[k].id = convo_key
    THEN conversations
    ELSE Append(conversations,
                Conv(convo_key, ConversationTitle(json_event.metadata),
                     Some(json_event.timestamp), 0))

\* The body of the loop over the JSON events (lib.rs:251-287)
ReconcileOne(events, conversations, convo_key, json_event) ==
    LET matched == FindMatch(events, convo_key, json_event)
    IN  IF matched # 0
        THEN [events |-> [events EXCEPT ![matched].metadata = json_event.metadata],
              conversations |-> conversations]
        ELSE [events |-> Append(events, json_event),
              conversations |-> EnsureConversation(conversations, convo_key, json_event)]

\* The pairs (convo_key, json_event) in the order of the two nested loops
\* (lib.rs:250-251).
RECURSIVE JsonQueue(_)
JsonQueue(json_conversations) ==
    IF json_conversations = << >> THEN << >>
    ELSE LET convo_key == Head(json_conversations)[1]
             json_events == Head(json_conversations)[2]
         IN  [k \in 1..Len(json_events) |-> <<convo_key, json_events[k]>>]
                 \o JsonQueue(Tail(json_conversations))


\* What parse_subpage returns for a file that parses (parser.rs:13-67).
ParsedSubpage(file, next_id) ==
    LET events == WithIds(file.events, next_id)
    IN  [conversation |-> Conv(file.conversation_id, file.display_name,
                               IF events = << >> THEN None
                               ELSE Some(events[Len(events)].timestamp),
                               Len(events)),
         events |-> events]

\* The warning without the count.
ParseFailureUncounted(r) == [r EXCEPT !.warnings = Append(@, "Failed to parse")]

\* A subpage that does not parse (lib.rs:202-210)
ParseFailure(r) ==
    [r EXCEPT !.parse_failures = @ + 1, !.warnings = Append(@, "Failed to parse")]

\* The loop over the parsed subpages (lib.rs:196-212)
RECURSIVE HtmlPhase(_, _)
HtmlPhase(r, files) ==
    IF files = << >> THEN r
    ELSE LET file == Head(files)
             parsed == ParsedSubpage(file, r.next_id)
         IN  HtmlPhase(IF file.ok
                       THEN [r EXCEPT !.all_conversations = Append(@, parsed.conversation),
                                      !.all_events = @ \o parsed.events,
                                      !.next_id = @ + Len(parsed.events)]
                       ELSE ParseFailure(r),
                       Tail(files))

\* The loop over the snap conversations (lib.rs:328-341)
RECURSIVE SnapPhase(_, _)
SnapPhase(r, snap_conversations) ==
    IF snap_conversations = << >> THEN r
    ELSE LET convo_key == Head(snap_conversations)[1]
             events == WithIds(Head(snap_conversations)[2], r.next_id)
             existing == \E k \in 1..Len(r.all_conversations) :
                            r.all_conversations[k].id = convo_key
             conv == Conv(convo_key, None,
                          IF events = << >> THEN None
                          ELSE Some(events[Len(events)].timestamp),
                          Len(events))
         IN  SnapPhase([r EXCEPT !.all_conversations = IF existing THEN @ ELSE Append(@, conv),
                                 !.all_events = @ \o events,
                                 !.next_id = @ + Len(events)],
                       Tail(snap_conversations))

\* all_events.sort_by left out.
SortByTimestampNot(events) == events

\* all_events.sort_by(|a, b| a.timestamp.cmp(&b.timestamp)) (lib.rs:373):
\* a stable sort.
RECURSIVE SortByTimestamp(_)
SortByTimestamp(events) ==
    IF events = << >> THEN << >>
    ELSE LET sorted == SortByTimestamp(SubSeq(events, 1, Len(events) - 1))
             e == events[Len(events)]
             keep == Cardinality({k \in 1..Len(sorted) : sorted[k].timestamp <= e.timestamp})
         IN  SubSeq(sorted, 1, keep) \o <<e>> \o SubSeq(sorted, keep + 1, Len(sorted))

\* conv_stats and the loop that applies it (lib.rs:376-397)
ApplyConvStats(conversations, events) ==
    [k \in 1..Len(conversations) |->
        LET mine == {j \in 1..Len(events) :
                        events[j].conversation_id = Some(conversations[k].id)}
            last_ts == CHOOSE t \in {events[j].timestamp : j \in mine} :
                           \A j \in mine : events[j].timestamp <= t
        IN  IF mine = {} THEN conversations[k]
            ELSE [conversations[k] EXCEPT !.message_count = Min(Cardinality(mine), I32Max),
                                          !.last_event_at = Some(last_ts)]]

\* Path::to_string_lossy and PathBuf::from (db.rs:278, 648) on a path of
\* UTF-8 components.
PathText(path) == <<"path", path>>

PathFromText(text) == text[2]

\* The row one Memory is written as (db.rs:266-283).
MemoryRow(m) ==
    [id              |-> m.id,
     timestamp       |-> to_rfc3339(m.timestamp),
     media_type      |-> m.media_type,
     media_path      |-> IF IsSome(m.media_path) THEN Some(PathText(Unwrap(m.media_path)))
                         ELSE None,
     download_url    |-> m.download_url,
     download_status |-> m.download_status,
     export_id       |-> m.export_id]

\* batch_insert_memories (db.rs:258-289) under FOREIGN KEY(export_id)
\* (db.rs:97).
batch_insert_memories(st, memories) ==
    IF \E k \in 1..Len(memories) : memories[k].export_id \notin ExportIds(st)
    THEN [ok |-> FALSE, st |-> st]
    ELSE [ok |-> TRUE,
          st |-> [st EXCEPT !.memories =
                     {r \in @ : \A k \in 1..Len(memories) : r.id # memories[k].id}
                         \cup {MemoryRow(memories[k]) : k \in 1..Len(memories)}]]

\* app_handle.emit("ingestion-progress", ...): the event with its step and
\* its progress as the fraction num / den.
Emit(progress, step, percent) ==
    Append(progress, [step |-> step, num |-> percent, den |-> 100])


(***************************************************************************)
(* The steps of reconstruct_from_path as actions.  Calls of process_export *)
(* follow one another.                                                     *)
(***************************************************************************)
\* lib.rs:106-137: the locals, the first progress event, insert_export.
Begin(exports, dirs, maxRuns) ==
    /\ run.pc \in {"ready", "done", "failed"}
    /\ run.runs < maxRuns
    /\ \E export \in exports, dir \in dirs :
          /\ run' = [NewRun("friends", run.next_id, run.runs + 1) EXCEPT
                        !.export_id = export.id, !.dir = dir,
                        !.progress = Emit(<< >>, "Initializing", 5)]
          /\ store' = insert_export(store, export)
    /\ resp' = [op |-> "insert_export"]
    /\ data_dir' = DbOpened(data_dir)
    /\ UNCHANGED <<linker, zip, downloader, pool, txn, peer>>

\* lib.rs:139-166: friends.json; a file that is not there leaves no warning.
Friends ==
    /\ run.pc = "friends"
    /\ LET f == run.dir.friends IN
       /\ run' = [run EXCEPT !.pc = "html",
                             !.progress = Emit(@, "Resolving Identities", 8),
                             !.warnings = IF f.present /\ ~f.ok
                                          THEN Append(@, "Could not parse friends list")
                                          ELSE @]
       /\ IF f.present /\ f.ok
          THEN store' = insert_people(store, f.data) /\ resp' = [op |-> "insert_people"]
          ELSE UNCHANGED <<store, resp>>
    /\ UNCHANGED <<linker, zip, downloader, pool, data_dir, txn, peer>>

\* lib.rs:168-221: the chat_history directory.
ParseHtml ==
    /\ run.pc = "html"
    /\ run' = IF run.dir.html_dir
              THEN [HtmlPhase(run, run.dir.html) EXCEPT !.pc = "json"]
              ELSE [run EXCEPT !.pc = "json",
                               !.warnings = Append(@, "No chat_history directory found in export")]
    /\ UNCHANGED <<store, resp, linker, zip, downloader, pool, data_dir, txn, peer>>

\* lib.rs:223-249, 296-303: chat_history.json is parsed; its events wait for
\* the loop.
ParseChatJson ==
    /\ run.pc = "json"
    /\ LET f == run.dir.chat_json
           queue == JsonQueue(f.data)
       IN  run' = [run EXCEPT
                     !.pc = "reconcile",
                     !.progress = Emit(@, "Parsing Chat JSON", 38),
                     !.errors = IF f.present /\ ~f.ok
                                THEN Append(@, "Could not parse chat history JSON")
                                ELSE @,
                     !.json_queue = IF f.present /\ f.ok
                                    THEN [k \in 1..Len(queue) |->
                                            <<queue[k][1],
                                              [queue[k][2] EXCEPT !.id = run.next_id + k - 1]>>]
                                    ELSE << >>,
                     !.next_id = IF f.present /\ f.ok THEN @ + Len(queue) ELSE @]
    /\ UNCHANGED <<store, resp, linker, zip, downloader, pool, data_dir, txn, peer>>

\* lib.rs:251-287: one JSON event is reconciled with all_events.  last_step
\* keeps what the lists were before.
ReconcileStep ==
    /\ run.pc = "reconcile"
    /\ run.json_queue # << >>
    /\ LET convo_key == Head(run.json_queue)[1]
           json_event == Head(run.json_queue)[2]
           out == ReconcileOne(run.all_events, run.all_conversations, convo_key, json_event)
       IN  run' = [run EXCEPT
                     !.all_events = out.events,
                     !.all_conversations = out.conversations,
                     !.json_queue = Tail(@),
                     !.last_step = [taken |-> TRUE, events |-> run.all_events,
                                    conversations |-> run.all_conversations,
                                    convo_key |-> convo_key, json_event |-> json_event]]
    /\ UNCHANGED <<store, resp, linker, zip, downloader, pool, data_dir, txn, peer>>

\* lib.rs:305-350: snap_history.json.
ParseSnap ==
    /\ run.pc = "reconcile"
    /\ run.json_queue = << >>
    /\ LET f == run.dir.snap_json
           r == [run EXCEPT !.pc = "link", !.progress = Emit(@, "Parsing Snap History", 42), !.last_step = NoStep]
       IN  run' = IF f.present /\ f.ok THEN SnapPhase(r, f.data)
                  ELSE IF f.present
                  THEN [r EXCEPT !.errors = Append(@, "Could not parse snap history")]
                  ELSE r
    /\ UNCHANGED <<store, resp, linker, zip, downloader, pool, data_dir, txn, peer>>

\* lib.rs:352-397: the events are sorted and linked, the conversations get
\* their counts.  Every file MediaLinker has found is still there.
LinkPhase ==
    /\ run.pc = "link"
    /\ LET sorted == SortByTimestamp(run.all_events)
           linked == link_media(sorted, run.dir.id_map, {m.path : m \in run.dir.id_map})
       IN  run' = [run EXCEPT
                     !.pc = "memories",
                     !.progress = Emit(@, "Linking Media", 50),
                     !.all_events = linked,
                     !.all_conversations = ApplyConvStats(@, linked)]
    /\ UNCHANGED <<store, resp, linker, zip, downloader, pool, data_dir, txn, peer>>

\* lib.rs:399-427: memories_history.json.
ParseMemories ==
    /\ run.pc = "memories"
    /\ LET f == run.dir.memories_json IN
       run' = [run EXCEPT
                 !.pc = "save_conversations",
                 !.progress = Emit(@, "Processing Memories", 65),
                 !.all_memories = IF f.present /\ f.ok
                                  THEN [k \in 1..Len(f.data) |->
                                          [f.data[k] EXCEPT !.id = run.next_id + k - 1,
                                                            !.export_id = run.export_id]]
                                  ELSE << >>,
                 !.next_id = IF f.present /\ f.ok THEN @ + Len(f.data) ELSE @,
                 !.errors = IF f.present /\ ~f.ok
                            THEN Append(@, "Could not parse memories")
                            ELSE @]
    /\ UNCHANGED <<store, resp, linker, zip, downloader, pool, data_dir, txn, peer>>

\* lib.rs:429-447: batch_insert_conversations.
SaveConversations ==
    /\ run.pc = "save_conversations"
    /\ run' = [run EXCEPT !.pc = "save_events", !.progress = Emit(@, "Saving to Database", 75)]
    /\ store' = batch_insert_conversations(store, run.all_conversations)
    /\ resp' = [op |-> "batch_insert_conversations"]
    /\ UNCHANGED <<linker, zip, downloader, pool, data_dir, txn, peer>>

\* lib.rs:448: batch_insert_events; its error ends the function.
SaveEvents ==
    /\ run.pc = "save_events"
    /\ LET r == batch_insert_events(store, run.all_events, run.export_id)
       IN  /\ store' = r.st
           /\ resp' = [op |-> "batch_insert_events", ok |-> r.ok, events |-> run.all_events]
           /\ run' = [run EXCEPT !.pc = IF r.ok THEN "save_memories" ELSE "failed"]
    /\ UNCHANGED <<linker, zip, downloader, pool, data_dir, txn, peer>>

\* lib.rs:450-492: batch_insert_memories if there are memories, the result
\* event and the last progress event.
Finish ==
    /\ run.pc = "save_memories"
    /\ LET r == IF run.all_memories # << >>
                THEN batch_insert_memories(store, run.all_memories)
                ELSE [ok |-> TRUE, st |-> store]
       IN  /\ store' = r.st
           /\ resp' = IF run.all_memories # << >>
                      THEN [op |-> "batch_insert_memories"] ELSE resp
           /\ run' = IF ~r.ok THEN [run EXCEPT !.pc = "failed"]
                     ELSE [run EXCEPT
                             !.pc = "done",
                             !.progress = Emit(@, "Complete", 100),
                             !.result = Some([export_id |-> run.export_id,
                                              conversations_parsed |-> Len(run.all_conversations),
                                              events_parsed |-> Len(run.all_events),
                                              memories_parsed |-> Len(run.all_memories),
                                              parse_failures |-> run.parse_failures,
                                              warnings |-> run.warnings,
                                              errors |-> run.errors])]
    /\ UNCHANGED <<linker, zip, downloader, pool, data_dir, txn, peer>>

\* reset_data (lib.rs:667-683): the database file is removed; the next
\* DatabaseManager::new makes an empty one.
ResetData ==
    /\ run.pc \in {"ready", "done", "failed"}
    /\ store' = EmptyStore
    /\ resp' = [op |-> "reset_data"]
    /\ run' = NewRun("ready", run.next_id, run.runs)
    /\ data_dir' = DbRemoved(data_dir)
    /\ UNCHANGED <<linker, zip, downloader, pool, txn, peer>>


(***************************************************************************)
(* SpecReconcile: the loop over the JSON events, started on every short    *)
(* list of HTML events and every short list of JSON events.                *)
(***************************************************************************)
MaxHtmlEvents == 2

MaxJsonEvents == 2

\* Events as parse_message_node makes them: no metadata (parser.rs:82-92).
HtmlEventPool ==
    {Ev(0, Some("c1"), "a", 10, "TEXT", None, << >>, None),
     Ev(0, Some("c1"), "a", 12, "MEDIA", None, << >>, None),
     Ev(0, Some("c1"), "a", 14, "MEDIA", None, << >>, None),
     Ev(0, Some("c1"), "b", 10, "TEXT", None, << >>, None),
     Ev(0, Some("c2"), "a", 10, "TEXT", None, << >>, None)}

\* Events as parse_chat_history_json makes them, each with the key of its
\* conversation: metadata is always there (parser.rs:298-333).
JsonEventPool ==
    {<<"c1", Ev(0, Some("c1"), "a", 12, "MEDIA", None, << >>, Meta(<<JStr("m1")>>))>>,
     <<"c1", Ev(0, Some("c1"), "a", 11, "MEDIA", None, << >>, Meta(<<JStr("m2")>>))>>,
     <<"c2", Ev(0, Some("c2"), "b", 10, "TEXT", None, << >>,
                Some(JsonObject(None, Some("T"), FALSE)))>>,
     <<"c3", Ev(0, Some("c3"), "a", 10, "TEXT", None, << >>,
                Some(JsonObject(None, None, TRUE)))>>}

\* The conversations the HTML phase leaves for a list of events.
ConversationsOf(events) ==
    SelectSeq(<<Conv("c1", None, None, 0), Conv("c2", None, None, 0)>>,
              LAMBDA c : \E k \in 1..Len(events) : events[k].conversation_id = Some(c.id))

InitReconcile ==
    /\ store = EmptyStore
    /\ resp = NoResp
    /\ data_dir = Idle
    /\ txn = Idle
    /\ peer = Idle
    /\ pool = Idle
    /\ downloader = Idle
    /\ linker = Idle
    /\ zip = Idle
    /\ \E html \in {<< >>} \cup SeqsUpTo(HtmlEventPool, MaxHtmlEvents),
          json \in SeqsUpTo(JsonEventPool, MaxJsonEvents) :
          run = [NewRun("reconcile", 1 + Len(html) + Len(json), 1) EXCEPT
                    !.export_id = "x1",
                    !.all_events = WithIds(html, 1),
                    !.all_conversations = ConversationsOf(html),
                    !.json_queue = [k \in 1..Len(json) |->
                                      <<json[k][1], [json[k][2] EXCEPT !.id = Len(html) + k]>>]]

NextReconcile == ReconcileStep

SpecReconcile == InitReconcile /\ [][NextReconcile]_vars

\* The four conditions of the claim on the event at place k of the list
\* before the step.
C1_Candidate(k) ==
    LET b == run.last_step.events[k]
        je == run.last_step.json_event
    IN  /\ b.conversation_id = Some(run.last_step.convo_key)
        /\ b.sender = je.sender
        /\ b.timestamp - je.timestamp \in -2..2
        /\ b.metadata = None

\* C1: each JSON event either gives its metadata to the first event of the
\* list with the same conversation id, the same sender, a timestamp at most
\* 2 seconds away and no metadata, the list keeping its length, or, when
\* there is no such event, is appended (length + 1), a conversation of its
\* id being made if there was none.
C1_ReconcileMergesFirstMatchOrAppends ==
    run.last_step.taken =>
        LET before == run.last_step.events
            convsBefore == run.last_step.conversations
            key == run.last_step.convo_key
            je == run.last_step.json_event
            had == \E j \in 1..Len(convsBefore) : convsBefore[j].id = key
        IN  IF \E k \in 1..Len(before) : C1_Candidate(k)
            THEN /\ Len(run.all_events) = Len(before)
                 /\ run.all_conversations = convsBefore
                 /\ \E k \in 1..Len(before) :
                       /\ C1_Candidate(k)
                       /\ \A j \in 1..(k - 1) : ~C1_Candidate(j)
                       /\ run.all_events[k] = [before[k] EXCEPT !.metadata = je.metadata]
                       /\ \A j \in 1..Len(before) : j # k => run.all_events[j] = before[j]
            ELSE /\ Len(run.all_events) = Len(before) + 1
                 /\ run.all_events = Append(before, je)
                 /\ had => run.all_conversations = convsBefore
                 /\ ~had => /\ Len(run.all_conversations) = Len(convsBefore) + 1
                            /\ SubSeq(run.all_conversations, 1, Len(convsBefore)) = convsBefore
                            /\ run.all_conversations[Len(run.all_conversations)].id = key

\* Witness of C1: a JSON event passed over a first event that already had
\* metadata and gave its own to the second.
C1_Witness ==
    /\ run.pc = "reconcile"
    /\ run.last_step.taken
    /\ Len(run.last_step.events) = 2
    /\ MatchesAnyMetadata(run.last_step.events[1], run.last_step.convo_key,
                          run.last_step.json_event)
    /\ IsSome(run.last_step.events[1].metadata)
    /\ ~IsSome(run.last_step.events[2].metadata)
    /\ run.all_events[2].metadata = run.last_step.json_event.metadata
    /\ Len(run.all_events) = 2


(***************************************************************************)
(* Spec: process_export is called up to MaxRuns times, on one of three     *)
(* export directories and under one of two export ids; the database may be *)
(* reset between calls and the conversation list read at any time.         *)
(***************************************************************************)
MaxRuns == 2

Exports ==
    {TheExport,
     [id |-> "x2", source_path |-> <<"s", "x2">>, source_type |-> "Folder",
      validation_status |-> "Valid"]}

Subpage(ok, conversation_id, display_name, events) ==
    [ok |-> ok, conversation_id |-> conversation_id, display_name |-> display_name,
     events |-> events]

\* An export with every file: two subpages, one of them broken; JSON events
\* that merge, that are appended and that open a conversation; snaps of a
\* new and of a known conversation; one memory; two media files.
FullDir ==
    [friends |-> File(TRUE, TRUE, <<[username |-> "a", display_name |-> Some("Al")]>>),
     html_dir |-> TRUE,
     html |-> <<Subpage(TRUE, "c1", Some("bob"),
                        <<Ev(0, Some("c1"), "a", 10, "TEXT", Some(<<"a">>), << >>, None),
                          Ev(0, Some("c1"), "b", 12, "MEDIA", None, << >>, None)>>),
                Subpage(FALSE, "", None, << >>)>>,
     chat_json |-> File(TRUE, TRUE,
        <<<<"c1", <<Ev(0, Some("c1"), "a", 11, "MEDIA", None, << >>, Meta(<<JStr("m1")>>)),
                    Ev(0, Some("c1"), "b", 13, "MEDIA", None, << >>, Meta(<<JStr("m2")>>)),
                    Ev(0, Some("c1"), "a", 11, "MEDIA", None, << >>, Meta(<<JStr("m2")>>))>>>>,
          <<"c2", <<Ev(0, Some("c2"), "b", 20, "TEXT", Some(<<"b">>), << >>,
                       Some(JsonObject(None, Some("T"), FALSE)))>>>>>>),
     snap_json |-> File(TRUE, TRUE,
        <<<<"c3", <<Ev(0, Some("c3"), "z", 5, "SNAP", Some(<<"a">>), << >>,
                       Some(JsonObject(None, None, TRUE)))>>>>,
          <<"c1", <<Ev(0, Some("c1"), "b", 9, "SNAP_VIDEO", Some(<<"a">>), << >>,
                       Some(JsonObject(None, None, FALSE)))>>>>>>),
     memories_json |-> File(TRUE, TRUE,
        <<[id |-> 0, timestamp |-> 7, media_type |-> "Image", media_path |-> None,
           export_id |-> "", download_url |-> None, download_status |-> "Pending"]>>),
     id_map |-> {[id |-> "m1", path |-> "/p1"], [id |-> "m2", path |-> "/p2"]}]

\* An export with nothing but a chat_history.json that does not parse.
BareDir == [NoDir EXCEPT !.chat_json = Unparsable]

\* An export whose two subpages have one conversation id (subpage_c1.html
\* and subpage_subpage_c1.html, parser.rs:18-21), one of them without
\* events, and whose other files do not parse.
TwinDir ==
    [friends |-> Unparsable,
     html_dir |-> TRUE,
     html |-> <<Subpage(TRUE, "c1", None, << >>),
                Subpage(TRUE, "c1", Some("bob"),
                        <<Ev(0, Some("c1"), "a", 10, "TEXT", Some(<<"a">>), <<"/p1">>, None)>>)>>,
     chat_json |-> Absent,
     snap_json |-> Unparsable,
     memories_json |-> Unparsable,
     id_map |-> {}]

\* An export with three subpages of which the first and the last do not
\* parse, and with no JSON file.
BrokenDir ==
    [NoDir EXCEPT
        !.html_dir = TRUE,
        !.html = <<Subpage(FALSE, "", None, << >>),
                   Subpage(TRUE, "c1", Some("bob"),
                           <<Ev(0, Some("c1"), "a", 10, "TEXT", Some(<<"a">>), << >>, None)>>),
                   Subpage(FALSE, "", None, << >>)>>]

ExportDirs == {FullDir, BareDir, TwinDir}

Init ==
    /\ store = EmptyStore
    /\ resp = NoResp
    /\ data_dir = Idle
    /\ txn = Idle
    /\ peer = Idle
    /\ pool = Idle
    /\ downloader = Idle
    /\ linker = Idle
    /\ zip = Idle
    /\ run = NewRun("ready", 1, 0)

Next ==
    \/ Begin(Exports, ExportDirs, MaxRuns)
    \/ Friends
    \/ ParseHtml
    \/ ParseChatJson
    \/ ReconcileStep
    \/ ParseSnap
    \/ LinkPhase
    \/ ParseMemories
    \/ SaveConversations
    \/ SaveEvents
    \/ Finish
    \/ ResetData
    \/ GetConversations

Spec == Init /\ [][Next]_vars

\* The number of rows of events with a conversation id.
StoredCount(cid) ==
    Cardinality({id \in DOMAIN store.events : store.events[id].conversation_id = Some(cid)})

\* The ids of the events of the current call.
RunEventIds == {run.all_events[k].id : k \in 1..Len(run.all_events)}

\* What get_conversations returned counts the rows of the store.
C2_ReturnedCountsAreStoreCounts ==
    resp.op = "get_conversations" =>
        /\ {c.id : c \in resp.conversations} = ConversationIds(store)
        /\ \A c \in resp.conversations : c.message_count = StoredCount(c.id)

\* C2 as stated: after a successful process_export the message_count the
\* orchestrator has recomputed and the one get_conversations returns are
\* both the number of stored events of the conversation.
C2_MessageCountIsStoreCount ==
    /\ run.pc = "done" =>
          \A k \in 1..Len(run.all_conversations) :
              run.all_conversations[k].message_count = StoredCount(run.all_conversations[k].id)
    /\ C2_ReturnedCountsAreStoreCounts

\* C2 amended: after a successful process_export the message_count the
\* orchestrator has recomputed is the number of events of this call with
\* the conversation id, all of them stored, so it is the store's count when
\* no earlier call has left events of that conversation and is below it
\* otherwise; the one get_conversations returns is the store's count.
C2_MessageCountIsCountOfThisRun ==
    /\ run.pc = "done" =>
          /\ RunEventIds \subseteq DOMAIN store.events
          /\ \A k \in 1..Len(run.all_conversations) :
                LET cid == run.all_conversations[k].id
                    mine == {id \in RunEventIds : store.events[id].conversation_id = Some(cid)}
                    others == {id \in DOMAIN store.events \ RunEventIds :
                                  store.events[id].conversation_id = Some(cid)}
                IN  /\ run.all_conversations[k].message_count = Cardinality(mine)
                    /\ StoredCount(cid) = Cardinality(mine) + Cardinality(others)
    /\ C2_ReturnedCountsAreStoreCounts

\* Witness of C2: a second call has ended on a store that kept the events
\* of the first, and the conversation list has been read.
C2_Witness ==
    /\ run.pc = "done"
    /\ run.runs = 2
    /\ \E k \in 1..Len(run.all_conversations) :
          /\ run.all_conversations[k].message_count >= 1
          /\ run.all_conversations[k].message_count < StoredCount(run.all_conversations[k].id)
    /\ resp.op = "get_conversations"
    /\ \E c \in resp.conversations : c.message_count >= 2

\* C4: every event row names an export row and, unless its conversation_id
\* is NULL, a conversations row; when batch_insert_events is reached the
\* export and every conversation of the events to be written are stored
\* already, so the call never fails.
C4_EventsReferenceStoredRows ==
    /\ \A id \in DOMAIN store.events :
          /\ store.events[id].export_id \in ExportIds(store)
          /\ IsSome(store.events[id].conversation_id) =>
                Unwrap(store.events[id].conversation_id) \in ConversationIds(store)
    /\ run.pc = "save_events" =>
          /\ run.export_id \in ExportIds(store)
          /\ \A k \in 1..Len(run.all_events) :
                /\ IsSome(run.all_events[k].conversation_id)
                /\ Unwrap(run.all_events[k].conversation_id) \in ConversationIds(store)
    /\ run.pc # "failed"

\* Witness of C4: a call has ended with stored events of a conversation
\* from a subpage, of one opened by a JSON event and of one opened by a snap.
C4_Witness ==
    /\ run.pc = "done"
    /\ \A cid \in {"c1", "c2", "c3"} :
          /\ cid \in ConversationIds(store)
          /\ StoredCount(cid) >= 1


(***************************************************************************)
(* process_export on a zip export (lib.rs:67-99): the working directory,   *)
(* ZipExtractor::extract, and reconstruct_from_path on what was extracted. *)
(* What the extracted files parse to is one of the export directories.     *)
(***************************************************************************)
ZipExport ==
    [id |-> "x1", source_path |-> <<"s", "x1.zip">>, source_type |-> "Zip",
     validation_status |-> "Valid"]

working_dir == <<"t">>

\* lib.rs:72-88: the working directory is made and extract is entered.
ProcessExportZip(disks, maxParts, maxRuns) ==
    /\ run.pc \in {"ready", "done", "failed"}
    /\ run.runs < maxRuns
    /\ \E disk \in disks, total_parts \in 0..maxParts :
          LET dir == IF ~PathExists(disk, working_dir)
                     THEN create_dir_all(disk, working_dir)
                     ELSE [ok |-> TRUE, disk |-> disk, made |-> {}]
              r == [NewRun("extracting", run.next_id, run.runs + 1) EXCEPT
                       !.export_id = ZipExport.id]
          IN  /\ run' = IF dir.ok THEN r ELSE [r EXCEPT !.pc = "failed"]
              /\ zip' = IF dir.ok
                        THEN NewZip(dir.disk, working_dir, ZipExport.id, total_parts)
                        ELSE Idle
    /\ UNCHANGED <<store, resp, linker, downloader, pool, data_dir, txn, peer>>

\* lib.rs:88-93 with lib.rs:106-137: extract returned Ok(extraction_path)
\* and reconstruct_from_path starts on it; the progress events of the call
\* so far are those of the extraction.
ExtractReturned(dirs) ==
    /\ run.pc = "extracting"
    /\ zip.pc = "done"
    /\ \E dir \in dirs :
          run' = [run EXCEPT !.pc = "friends", !.dir = dir,
                             !.progress = Emit(zip.progress, "Initializing", 5)]
    /\ store' = insert_export(store, ZipExport)
    /\ resp' = [op |-> "insert_export"]
    /\ data_dir' = DbOpened(data_dir)
    /\ UNCHANGED <<linker, zip, downloader, pool, txn, peer>>

\* lib.rs:88 and 95-96: extract returned an error, or panicked on the
\* blocking thread, which the join turns into an error; process_export
\* returns it and reconstruct_from_path is not called.
ExtractFailed ==
    /\ run.pc = "extracting"
    /\ zip.pc \in {"failed", "panicked"}
    /\ run' = [run EXCEPT !.pc = "failed", !.progress = zip.progress]
    /\ UNCHANGED <<store, resp, linker, zip, downloader, pool, data_dir, txn, peer>>

MaxExportRuns == 1

ExportEntryNames == {<<"a", Slash, "b">>, <<"..", Slash, "x">>}

ExportEntrySizes == {6, MAX_TOTAL_SIZE}

ExportDisks == {[dirs |-> {<< >>}, files |-> {}]}

InitExport ==
    /\ store = EmptyStore
    /\ resp = NoResp
    /\ data_dir = Idle
    /\ txn = Idle
    /\ peer = Idle
    /\ pool = Idle
    /\ downloader = Idle
    /\ linker = Idle
    /\ zip = Idle
    /\ run = NewRun("ready", 1, 0)

NextExport ==
    \/ ProcessExportZip(ExportDisks, MaxParts, MaxExportRuns)
    \/ ZipStart
    \/ ZipOpenPart(PartKinds, MaxEntries)
    \/ ZipEntry(ExportEntryNames, ExportEntrySizes)
    \/ ZipFinish
    \/ ExtractReturned({FullDir, BareDir, BrokenDir})
    \/ ExtractFailed
    \/ Begin({TheExport}, {FullDir, BareDir, BrokenDir}, MaxExportRuns)
    \/ Friends
    \/ ParseHtml
    \/ ParseChatJson
    \/ ReconcileStep
    \/ ParseSnap
    \/ LinkPhase
    \/ ParseMemories
    \/ SaveConversations
    \/ SaveEvents
    \/ Finish

SpecExport == InitExport /\ [][NextExport]_vars

\* C11: once extract has passed over an entry with an unsafe path, or has
\* met the size cap, it ends in an error and process_export does not go on
\* to reconstruct_from_path.
C11_ZipSafetyViolationIsFatal ==
    (zip.pc # "idle" /\ (zip.passed_over \/ zip.error = "Validation"))
        => (zip.pc = "failed" /\ run.pc \in {"extracting", "failed"})


(***************************************************************************)
(* MemoryDownloader (downloader.rs) and the commands that call it          *)
(* (lib.rs:778-794).  downloader holds the locals of the call in progress, *)
(* the disk under the storage directory and what the remote server will    *)
(* send: body chunks of one unit each, of which the connection delivers    *)
(* all or fails before the end.  A path is a sequence of components.       *)
(***************************************************************************)
\* A Memory (models.rs:101-113).
Mem(id, timestamp, media_type, media_path, export_id, download_url, download_status) ==
    [id |-> id, timestamp |-> timestamp, media_type |-> media_type,
     media_path |-> media_path, export_id |-> export_id,
     download_url |-> download_url, download_status |-> download_status]

\* map_memory_row (db.rs:625-654)
map_memory_row(row) ==
    LET parsed == parse_from_rfc3339(row.timestamp) IN
    Mem(row.id,
        IF IsSome(parsed) THEN Unwrap(parsed) ELSE MIN_UTC,
        row.media_type,
        IF IsSome(row.media_path) THEN Some(PathFromText(Unwrap(row.media_path))) ELSE None,
        row.export_id,
        row.download_url,
        IF row.download_status \in {"Downloading", "Downloaded", "Failed"}
        THEN row.download_status ELSE "Pending")

\* The orders in which "ORDER BY timestamp DESC" may return a set of rows.
OrderedByTimestampDesc(rows) ==
    LET n == Cardinality(rows)
    IN  {s \in [1..n -> rows] :
            /\ \A i, j \in 1..n : i # j => s[i] # s[j]
            /\ \A i \in 1..n, j \in 1..n : i < j => TimestampTextLeq(s[j].timestamp, s[i].timestamp)}

\* get_memories(None) (db.rs:600-623): the lists it may return.
get_memories(st) ==
    {[k \in 1..Len(rows) |-> map_memory_row(rows[k])] : rows \in OrderedByTimestampDesc(st.memories)}

\* get_setting (db.rs:656-661)
get_setting(st, key) ==
    LET found == {r \in st.settings : r.key = key}
    IN  IF found = {} THEN None ELSE Some((CHOOSE r \in found : TRUE).value)

\* A filter that passes over the failed memories.
IsPendingOnly(m) == m.download_status = "Pending"

\* The filter of download_all_pending (downloader.rs:152-155)
IsPendingOrFailed(m) == m.download_status = "Pending" \/ m.download_status = "Failed"

RECURSIVE PendingOf(_)
\* memories.into_iter().filter(..).collect()
PendingOf(memories) ==
    IF memories = << >> THEN << >>
    ELSE IF IsPendingOrFailed(memories[1])
         THEN <<memories[1]>> \o PendingOf(Tail(memories))
         ELSE PendingOf(Tail(memories))

\* timestamp.format("%Y") and format("%m") (downloader.rs:54-55); the
\* instants of the model are seconds of January 1970.
FormatYear(t) == IF t >= 0 /\ t < 31536000 THEN "1970" ELSE "0000"

FormatMonth(t) == IF t >= 0 /\ t < 2678400 THEN "01" ELSE "00"

\* downloader.rs:47-51
Extension(media_type) == IF media_type \in {"video", "Video", "VIDEO"} THEN "mp4" ELSE "jpg"

\* downloader.rs:56 and 62-63; the file name id.ext is the pair of them.
TargetDir(storage_root, memory) ==
    storage_root \o <<"Memories", FormatYear(memory.timestamp), FormatMonth(memory.timestamp)>>

FilePath(storage_root, memory) ==
    Append(TargetDir(storage_root, memory), memory.id \o "." \o Extension(memory.media_type))

\* The status without the path.
MarkDownloadedNoPath(memory, file_path) ==
    [memory EXCEPT !.download_status = "Downloaded"]

\* downloader.rs:120-121
MarkDownloaded(memory, file_path) ==
    [memory EXCEPT !.download_status = "Downloaded", !.media_path = Some(file_path)]

\* The status left as it was.
MarkFailedNot(memory) == memory

\* downloader.rs:75 and 92
MarkFailed(memory) == [memory EXCEPT !.download_status = "Failed"]

NoFile == [open |-> FALSE, path |-> << >>, bytes |-> 0, flushed |-> FALSE]

NoMemory == Mem("", 0, "", None, "", None, "Pending")

\* A downloader between calls.  results holds what the calls of
\* download_memory returned, attempted the ids they were given, persisted
\* the statuses the current call has written, events its download-progress
\* events as [status, num, den]; at_call is the memories table as
\* download_all_pending found it.
NewDownloader(disk, calls) ==
    [pc |-> "ready", mode |-> "", queue |-> << >>, at_call |-> {}, attempted |-> << >>,
     results |-> << >>, given |-> NoMemory, memory |-> NoMemory, storage_root |-> << >>,
     file_path |-> << >>, known_size |-> FALSE, body |-> 0, downloaded |-> 0,
     file |-> NoFile, events |-> << >>, persisted |-> << >>, failure |-> "",
     command |-> "", disk |-> disk, calls |-> calls]

\* download_memory returns: to the command, or to the loop of
\* download_all_pending (downloader.rs:160-164), which logs an error and
\* goes on.
Return(d, result) ==
    [d EXCEPT !.pc = IF d.mode = "batch" THEN "batch" ELSE "returned",
              !.results = Append(@, result),
              !.file = [@ EXCEPT !.open = FALSE]]

\* One call of download_memory begins with its arguments.
Enter(d, memory, storage_root) ==
    [d EXCEPT !.pc = "start", !.given = memory, !.memory = memory,
              !.storage_root = storage_root, !.file_path = << >>,
              !.known_size = FALSE, !.body = 0, !.downloaded = 0, !.file = NoFile,
              !.events = << >>, !.persisted = << >>, !.failure = "",
              !.attempted = Append(@, memory.id)]

\* The command download_memory (lib.rs:785-794) with a Memory of the caller.
DownloadMemoryCommand(memories, maxCalls) ==
    /\ downloader.pc \in {"ready", "returned", "batch_done"}
    /\ downloader.calls < maxCalls
    /\ \E memory \in memories :
          LET storage_path == get_setting(store, "storage_path")
              d == [NewDownloader(downloader.disk, downloader.calls + 1) EXCEPT
                       !.mode = "single", !.command = "download_memory"]
          IN  downloader' = IF IsSome(storage_path)
                            THEN Enter(d, memory, <<Unwrap(storage_path)>>)
                            ELSE [d EXCEPT !.pc = "returned", !.results = <<"Err">>]
    /\ resp' = [op |-> "get_setting"]
    /\ UNCHANGED <<store, linker, zip, run, pool, data_dir, txn, peer>>

\* The command download_all_memories (lib.rs:778-781) and
\* download_all_pending up to its loop (downloader.rs:141-158).
DownloadAllMemories(maxCalls) ==
    /\ downloader.pc \in {"ready", "returned", "batch_done"}
    /\ downloader.calls < maxCalls
    /\ LET storage_path == get_setting(store, "storage_path")
           d == [NewDownloader(downloader.disk, downloader.calls + 1) EXCEPT
                    !.mode = "batch", !.command = "download_all_memories",
                    !.at_call = store.memories]
       IN  IF IsSome(storage_path)
           THEN \E memories \in get_memories(store) :
                   downloader' = [d EXCEPT !.pc = "batch",
                                           !.storage_root = <<Unwrap(storage_path)>>,
                                           !.queue = PendingOf(memories)]
           ELSE downloader' = [d EXCEPT !.pc = "batch_done"]
    /\ resp' = [op |-> "get_memories"]
    /\ UNCHANGED <<store, linker, zip, run, pool, data_dir, txn, peer>>

\* The head of the loop of download_all_pending (downloader.rs:160-165).
BatchNext ==
    /\ downloader.pc = "batch"
    /\ downloader' = IF downloader.queue = << >>
                     THEN [downloader EXCEPT !.pc = "batch_done"]
                     ELSE [Enter(downloader, Head(downloader.queue), downloader.storage_root)
                              EXCEPT !.queue = Tail(downloader.queue)]
    /\ UNCHANGED <<store, resp, linker, zip, run, pool, data_dir, txn, peer>>

\* download_memory up to the GET (downloader.rs:38-69).
DownloadStart ==
    /\ downloader.pc = "start"
    /\ LET d == downloader
           target_dir == TargetDir(d.storage_root, d.memory)
           dir == IF ~PathExists(d.disk, target_dir)
                  THEN create_dir_all(d.disk, target_dir)
                  ELSE [ok |-> TRUE, disk |-> d.disk, made |-> {}]
           memory == [d.memory EXCEPT !.download_status = "Downloading"]
           ins == batch_insert_memories(store, <<memory>>)
       IN  IF ~IsSome(d.memory.download_url)
           THEN downloader' = Return(d, "Ok") /\ UNCHANGED <<store, resp>>
           ELSE IF ~dir.ok
           THEN downloader' = Return([d EXCEPT !.failure = "io"], "Err")
                /\ UNCHANGED <<store, resp>>
           ELSE /\ store' = ins.st
                /\ resp' = [op |-> "batch_insert_memories"]
                /\ downloader' =
                      IF ~ins.ok
                      THEN Return([d EXCEPT !.disk = dir.disk, !.failure = "db"], "Err")
                      ELSE [d EXCEPT !.pc = "get", !.disk = dir.disk, !.memory = memory,
                                     !.file_path = FilePath(d.storage_root, d.memory),
                                     !.persisted = Append(@, "Downloading")]
    /\ UNCHANGED <<linker, zip, run, pool, data_dir, txn, peer>>

\* The GET and the creation of the file (downloader.rs:71-85): the request
\* fails, or the response comes with or without a Content-Length.
Get(maxChunks) ==
    /\ downloader.pc = "get"
    /\ LET d == downloader IN
       \/ LET memory == MarkFailed(d.memory)
              ins == batch_insert_memories(store, <<memory>>)
          IN  /\ store' = ins.st
              /\ resp' = [op |-> "batch_insert_memories"]
              /\ downloader' =
                    IF ins.ok
                    THEN Return([d EXCEPT !.memory = memory, !.failure = "get",
                                          !.persisted = Append(@, memory.download_status)], "Ok")
                    ELSE Return([d EXCEPT !.failure = "db"], "Err")
       \/ \E body \in 0..maxChunks, known_size \in BOOLEAN :
             LET made == file_create(d.disk, d.file_path)
             IN  /\ downloader' =
                       IF made.ok
                       THEN [d EXCEPT !.pc = "stream", !.body = body, !.known_size = known_size,
                                      !.disk = made.disk,
                                      !.file = [open |-> TRUE, path |-> d.file_path,
                                                bytes |-> 0, flushed |-> FALSE]]
                       ELSE Return([d EXCEPT !.body = body, !.known_size = known_size,
                                             !.failure = "io"], "Err")
                 /\ UNCHANGED <<store, resp>>
    /\ UNCHANGED <<linker, zip, run, pool, data_dir, txn, peer>>

\* One item of the body stream (downloader.rs:87-115): an error of the
\* connection, or a chunk, which is written unless the disk refuses.
Chunk ==
    /\ downloader.pc = "stream"
    /\ downloader.downloaded < downloader.body
    /\ LET d == downloader IN
       \/ LET memory == MarkFailed(d.memory)
              ins == batch_insert_memories(store, <<memory>>)
          IN  /\ store' = ins.st
              /\ resp' = [op |-> "batch_insert_memories"]
              /\ downloader' =
                    IF ins.ok
                    THEN Return([d EXCEPT !.memory = memory, !.failure = "chunk",
                                          !.persisted = Append(@, memory.download_status)], "Ok")
                    ELSE Return([d EXCEPT !.failure = "db"], "Err")
       \/ /\ downloader' = Return([d EXCEPT !.failure = "io"], "Err")
          /\ UNCHANGED <<store, resp>>
       \/ /\ downloader' =
                [d EXCEPT !.downloaded = @ + 1,
                          !.file = [@ EXCEPT !.bytes = @ + 1],
                          !.events = IF d.known_size
                                     THEN Append(@, [status |-> "Downloading",
                                                     num |-> d.downloaded + 1,
                                                     den |-> d.body])
                                     ELSE @]
          /\ UNCHANGED <<store, resp>>
    /\ UNCHANGED <<linker, zip, run, pool, data_dir, txn, peer>>

\* The stream is at its end (downloader.rs:87 and 117-136): flush, the
\* write of Downloaded with the path, the last progress event.
DownloadFinish ==
    /\ downloader.pc = "stream"
    /\ downloader.downloaded = downloader.body
    /\ LET d == downloader IN
       \/ /\ downloader' = Return([d EXCEPT !.failure = "io"], "Err")
          /\ UNCHANGED <<store, resp>>
       \/ LET memory == MarkDownloaded(d.memory, d.file_path)
              ins == batch_insert_memories(store, <<memory>>)
              flushed == [d EXCEPT !.file = [@ EXCEPT !.flushed = TRUE]]
          IN  /\ store' = ins.st
              /\ resp' = [op |-> "batch_insert_memories"]
              /\ downloader' =
                    IF ins.ok
                    THEN Return([flushed EXCEPT
                                    !.memory = memory,
                                    !.persisted = Append(@, memory.download_status),
                                    !.events = Append(@, [status |-> "Downloaded",
                                                          num |-> 1, den |-> 1])], "Ok")
                    ELSE Return([flushed EXCEPT !.failure = "db"], "Err")
    /\ UNCHANGED <<linker, zip, run, pool, data_dir, txn, peer>>


(***************************************************************************)
(* SpecDownload: the two download commands, one after the other, on a      *)
(* store that holds export x1, up to two memories in any status, and a     *)
(* storage path or none.                                                   *)
(***************************************************************************)
MaxChunks == 2

MaxDownloadCalls == 2

OldPath == <<"s", "old", "m.jpg">>

\* The memories a store may hold: a path goes with Downloaded.
StoredVariants(id, timestamp) ==
    {Mem(id, timestamp, "Image", IF status = "Downloaded" THEN Some(OldPath) ELSE None,
         "x1", url, status) :
        url \in {None, Some("u")},
        status \in {"Pending", "Downloading", "Downloaded", "Failed"}}

\* The memories a caller of the command download_memory passes.
GivenMemories ==
    {Mem("m1", 7, "Image", None, "x1", Some("u"), "Pending"),
     Mem("m1", 7, "Video", Some(OldPath), "x1", Some("u"), "Downloaded"),
     Mem("m1", 7, "Image", None, "x1", None, "Failed"),
     Mem("m3", 7, "Image", None, "zz", Some("u"), "Pending")}

DownloadDisks ==
    {[dirs |-> {<< >>, <<"s">>}, files |-> {}],
     [dirs |-> {<< >>, <<"s">>}, files |-> {<<"s", "Memories">>}],
     [dirs |-> {<< >>, <<"s">>, <<"s", "Memories">>, <<"s", "Memories", "1970">>,
                <<"s", "Memories", "1970", "01">>,
                <<"s", "Memories", "1970", "01", "m1.jpg">>},
      files |-> {}]}

InitDownload ==
    /\ resp = NoResp
    /\ data_dir = Idle
    /\ txn = Idle
    /\ peer = Idle
    /\ pool = Idle
    /\ linker = Idle
    /\ zip = Idle
    /\ run = Idle
    /\ \E disk \in DownloadDisks : downloader = NewDownloader(disk, 0)
    /\ \E first \in SUBSET StoredVariants("m1", 7), second \in SUBSET StoredVariants("m2", 9),
          settings \in {{}, {[key |-> "storage_path", value |-> "s"]}} :
          /\ Cardinality(first) <= 1
          /\ Cardinality(second) <= 1
          /\ store = [insert_export(EmptyStore, TheExport) EXCEPT
                         !.memories = {MemoryRow(m) : m \in first \cup second},
                         !.settings = settings]

NextDownload ==
    \/ DownloadMemoryCommand(GivenMemories, MaxDownloadCalls)
    \/ DownloadAllMemories(MaxDownloadCalls)
    \/ BatchNext
    \/ DownloadStart
    \/ Get(MaxChunks)
    \/ Chunk
    \/ DownloadFinish

SpecDownload == InitDownload /\ [][NextDownload]_vars

\* The row of the memories table with an id, as a set.
MemoryRows(id) == {r \in store.memories : r.id = id}

\* C13: a stored memory with status Downloaded has a media_path, and when
\* download_memory has written Downloaded, the row holds the path of the
\* file, which holds the whole body and was flushed.
C13_DownloadedHasMediaPath ==
    /\ \A r \in store.memories : r.download_status = "Downloaded" => IsSome(r.media_path)
    /\ (downloader.pc # "idle" /\ "Downloaded" \in Range(downloader.persisted)) =>
          /\ downloader.file.path = downloader.file_path
          /\ downloader.file.bytes = downloader.body
          /\ downloader.file.flushed
          /\ downloader.file_path \in downloader.disk.files
          /\ \A r \in MemoryRows(downloader.memory.id) :
                /\ r.download_status = "Downloaded"
                /\ r.media_path = Some(PathText(downloader.file_path))

C13_Witness ==
    /\ downloader.pc = "returned"
    /\ downloader.persisted = <<"Downloading", "Downloaded">>
    /\ downloader.body = 2
    /\ \E r \in store.memories : r.id = "m1" /\ r.download_status = "Downloaded"

\* C14: Downloading is in the store when the GET is issued; after a GET or
\* a chunk has failed, the row of the memory is Failed with the media_path
\* the memory came with, the call has emitted no event of status
\* Downloaded (the one with progress 1.0) and has returned Ok.
C14_FailureIsPersistedAndSwallowed ==
    /\ downloader.pc = "get" =>
          /\ MemoryRows(downloader.memory.id) # {}
          /\ \A r \in MemoryRows(downloader.memory.id) : r.download_status = "Downloading"
    /\ (downloader.pc # "idle" /\ downloader.failure \in {"get", "chunk"}) =>
          /\ downloader.persisted = <<"Downloading", "Failed">>
          /\ MemoryRows(downloader.memory.id) # {}
          /\ \A r \in MemoryRows(downloader.memory.id) :
                /\ r.download_status = "Failed"
                /\ r.media_path = MemoryRow(downloader.given).media_path
          /\ \A k \in 1..Len(downloader.events) : downloader.events[k].status # "Downloaded"
          /\ downloader.results[Len(downloader.results)] = "Ok"

C14_Witness ==
    /\ downloader.pc = "returned"
    /\ downloader.failure = "chunk"
    /\ downloader.downloaded = 1
    /\ downloader.events # << >>
    /\ downloader.given.media_path = Some(OldPath)

\* The ids of the memories that were Pending or Failed in the store when
\* download_all_pending was called.
PendingAtCall ==
    {r.id : r \in {q \in downloader.at_call : q.download_status \in {"Pending", "Failed"}}}

\* download_memory was called once for each of the ids and for no other.
AttemptedExactly(ids) ==
    /\ Range(downloader.attempted) = ids
    /\ Len(downloader.attempted) = Cardinality(ids)
    /\ Len(downloader.results) = Len(downloader.attempted)

\* C15 as stated: when download_all_pending has returned, download_memory
\* has been called for exactly the memories that were Pending or Failed.
C15_AttemptsEveryPendingOrFailed ==
    (downloader.pc = "batch_done") => AttemptedExactly(PendingAtCall)

\* C15: when download_all_pending has returned and a storage path is set,
\* download_memory has been called once for each memory that was Pending or
\* Failed at the call and for no other, whatever the calls returned; with
\* no storage path it has been called for none.
C15_AttemptsEveryPendingOrFailedGivenStoragePath ==
    (downloader.pc = "batch_done") =>
        IF IsSome(get_setting(store, "storage_path"))
        THEN AttemptedExactly(PendingAtCall)
        ELSE AttemptedExactly({})

C15_Witness ==
    /\ downloader.pc = "batch_done"
    /\ Len(downloader.attempted) = 2
    /\ downloader.results[1] = "Err"
    /\ \E r \in downloader.at_call : r.id = downloader.attempted[1] /\ r.download_status = "Failed"
    /\ \E r \in store.memories : r.id = downloader.attempted[2] /\ r.download_status = "Downloaded"


(***************************************************************************)
(* The connection pool of a DatabaseManager (db.rs:34-47).  Every store    *)
(* operation begins with conn(); the operations of the threads that share  *)
(* the manager are counted: held have a connection, waiting are inside     *)
(* pool.get(); timed_out tells that a pool.get() has timed out.  What an   *)
(* operation does with its connection is left out.                         *)
(***************************************************************************)
POOL_MAX_SIZE == 10

StoreOps == {"get_conversations", "get_messages", "search_messages", "batch_insert_events"}

\* conn() (db.rs:45-47): pool.get() hands out an idle connection or waits.
Conn(ops, maxWaiting) ==
    /\ \E op \in ops :
          IF pool.held < pool.max_size
          THEN /\ pool' = [pool EXCEPT !.held = @ + 1]
               /\ resp' = [op |-> op, status |-> "running"]
          ELSE /\ pool.waiting < maxWaiting
               /\ pool' = [pool EXCEPT !.waiting = @ + 1]
               /\ resp' = [op |-> op, status |-> "waiting"]
    /\ UNCHANGED <<store, linker, zip, run, downloader, data_dir, txn, peer>>

\* An operation returns and its PooledConnection is dropped; a waiting
\* pool.get() takes the connection over.
Release(ops) ==
    /\ pool.held > 0
    /\ \E op \in ops :
          /\ pool' = IF pool.waiting > 0
                     THEN [pool EXCEPT !.waiting = @ - 1]
                     ELSE [pool EXCEPT !.held = @ - 1]
          /\ resp' = [op |-> op, status |-> "ok"]
    /\ UNCHANGED <<store, linker, zip, run, downloader, data_dir, txn, peer>>

\* The timeout of pool.get() passes with every connection held: get()
\* returns Err and expect("Database pool exhausted") panics (db.rs:46).
AcquireTimeout(ops) ==
    /\ pool.waiting > 0
    /\ pool.held = pool.max_size
    /\ \E op \in ops :
          /\ pool' = [pool EXCEPT !.waiting = @ - 1, !.timed_out = TRUE]
          /\ resp' = [op |-> op, status |-> "panic"]
    /\ UNCHANGED <<store, linker, zip, run, downloader, data_dir, txn, peer>>

MaxWaiting == 2

InitPool ==
    /\ store = EmptyStore
    /\ resp = NoResp
    /\ data_dir = Idle
    /\ txn = Idle
    /\ peer = Idle
    /\ linker = Idle
    /\ zip = Idle
    /\ run = Idle
    /\ downloader = Idle
    /\ pool = [max_size |-> POOL_MAX_SIZE, held |-> 0, waiting |-> 0, timed_out |-> FALSE]

NextPool ==
    \/ Conn(StoreOps, MaxWaiting)
    \/ Release(StoreOps)
    \/ AcquireTimeout(StoreOps)

SpecPool == InitPool /\ [][NextPool]_vars

\* C16: an operation whose acquisition of a connection timed out returns an
\* error to its caller; it does not panic.
C16_AcquisitionFailureReturnsError ==
    (pool.timed_out /\ resp.status \notin {"running", "waiting", "ok"}) => resp.status = "err"


(***************************************************************************)
(* SpecRead: calls of process_export on an export whose subpage holds its  *)
(* events out of order, two of them with one timestamp, and reads of the   *)
(* conversation at any time.                                               *)
(***************************************************************************)
OrderDir ==
    [NoDir EXCEPT
        !.html_dir = TRUE,
        !.html = <<Subpage(TRUE, "c1", Some("bob"),
                           <<Ev(0, Some("c1"), "a", 10, "TEXT", Some(<<"a">>), << >>, None),
                             Ev(0, Some("c1"), "b", 5, "TEXT", Some(<<"b">>), << >>, None),
                             Ev(0, Some("c1"), "a", 5, "TEXT", Some(<<"c">>), << >>, None)>>)>>]

NextRead ==
    \/ Begin({TheExport}, {OrderDir}, MaxRuns)
    \/ Friends
    \/ ParseHtml
    \/ ParseChatJson
    \/ ParseSnap
    \/ LinkPhase
    \/ ParseMemories
    \/ SaveConversations
    \/ SaveEvents
    \/ Finish
    \/ GetMessages({"c1"})
    \/ GetMessagesPage({"c1"}, {0, 1}, {2, 10})

SpecRead == Init /\ [][NextRead]_vars

\* A list of events is in non-decreasing order of timestamp.
SortedByTimestamp(events) ==
    \A i, j \in 1..Len(events) : i < j => events[i].timestamp <= events[j].timestamp

\* The place of an event in the list the current call has persisted.
PlaceInRun(id) == CHOOSE k \in 1..Len(run.all_events) : run.all_events[k].id = id

\* Event a was persisted before event b, for two events of which at least
\* one is of the current call: an event of an earlier call came first, two
\* events of the current call came in the order of all_events.
PersistedBefore(a, b) ==
    IF a \in RunEventIds /\ b \in RunEventIds THEN PlaceInRun(a) < PlaceInRun(b)
    ELSE a \notin RunEventIds /\ b \in RunEventIds

\* The last store operation was a read of messages.
IsRead == resp.op \in {"get_messages", "get_messages_page"} /\ resp.status = "ok"

\* The events are sorted from the link phase on, and so is the list given
\* to batch_insert_events; a read is in non-decreasing order of timestamp.
SortedAndReadInOrder ==
    /\ run.pc \in {"memories", "save_conversations", "save_events", "save_memories", "done"}
          => SortedByTimestamp(run.all_events)
    /\ resp.op = "batch_insert_events" => SortedByTimestamp(resp.events)
    /\ IsRead => SortedByTimestamp(resp.messages)

\* C17 as stated: sorted before linking and persistence, reads in
\* non-decreasing order of timestamp, and a read after a call returns the
\* events in the order in which they were persisted.
C17_ReadsInPersistedOrder ==
    /\ SortedAndReadInOrder
    /\ (IsRead /\ run.pc = "done") =>
          \A i, j \in 1..Len(resp.messages) :
              i < j => ~PersistedBefore(resp.messages[j].id, resp.messages[i].id)

\* C17: sorted before linking and persistence, reads in non-decreasing
\* order of timestamp; a read after a call departs from the order of
\* persistence only for two events of one timestamp and for an event of an
\* earlier call, which is merged in by its timestamp.
C17_ReadsInTimestampOrder ==
    /\ SortedAndReadInOrder
    /\ (IsRead /\ run.pc = "done") =>
          \A i, j \in 1..Len(resp.messages) :
              (i < j /\ PersistedBefore(resp.messages[j].id, resp.messages[i].id)) =>
                  \/ resp.messages[i].timestamp = resp.messages[j].timestamp
                  \/ resp.messages[j].id \notin RunEventIds

C17_Witness ==
    /\ run.pc = "done"
    /\ run.runs = 1
    /\ resp.op = "get_messages"
    /\ Len(resp.messages) = 3
    /\ resp.messages[3].timestamp = 10
    /\ resp.messages[3].sender = "a"


(***************************************************************************)
(* Claims on the warnings, the counts and the progress events of one call  *)
(* of process_export, checked under SpecExport.                            *)
(***************************************************************************)
\* The places of the run after the HTML phase.
AfterHtml ==
    {"json", "reconcile", "link", "memories", "save_conversations", "save_events",
     "save_memories", "done"}

\* The subpages of the export that do not parse, and those that do.
FailedFiles == {k \in 1..Len(run.dir.html) : ~run.dir.html[k].ok}

ParsedFiles == {k \in 1..Len(run.dir.html) : run.dir.html[k].ok}

RECURSIVE SumOfEvents(_)
\* The number of events of a set of subpages.
SumOfEvents(files) ==
    IF files = {} THEN 0
    ELSE LET k == CHOOSE f \in files : TRUE
         IN  Len(run.dir.html[k].events) + SumOfEvents(files \ {k})

\* C18: after the HTML phase every subpage that failed to parse is counted
\* and has left one warning, the conversation and the events of every other
\* subpage are collected, and the result of the run reports the number of
\* failed subpages.
C18_ParseFailuresCountedRunContinues ==
    /\ (run.pc \in AfterHtml /\ run.dir.html_dir) =>
          /\ run.parse_failures = Cardinality(FailedFiles)
          /\ Cardinality({k \in 1..Len(run.warnings) : run.warnings[k] = "Failed to parse"})
                = Cardinality(FailedFiles)
          /\ \A k \in ParsedFiles :
                \E c \in 1..Len(run.all_conversations) :
                    run.all_conversations[c].id = run.dir.html[k].conversation_id
    /\ (run.pc = "json" /\ run.dir.html_dir) =>
          Len(run.all_events) = SumOfEvents(ParsedFiles)
    /\ (run.pc = "done" /\ run.dir.html_dir) =>
          Unwrap(run.result).parse_failures = Cardinality(FailedFiles)

C18_Witness ==
    /\ run.pc = "done"
    /\ Unwrap(run.result).parse_failures = 2
    /\ Unwrap(run.result).conversations_parsed = 1
    /\ Unwrap(run.result).events_parsed = 1
    /\ \E id \in DOMAIN store.events : store.events[id].conversation_id = Some("c1")

\* The optional files of the export that are not there.
AbsentOptionalFiles ==
    {name \in {"friends", "chat_json", "snap_json", "memories_json"} :
        ~(CASE name = "friends" -> run.dir.friends
            [] name = "chat_json" -> run.dir.chat_json
            [] name = "snap_json" -> run.dir.snap_json
            [] OTHER -> run.dir.memories_json).present}

\* The warnings reconstruct_from_path has for a file (lib.rs:161); for the
\* three other files it has entries of errors only (lib.rs:298, 347, 422).
WarningsAbout(name) ==
    IF name = "friends" THEN {"Could not parse friends list"} ELSE {}

\* C19: the warnings of the result of a run hold a warning for every
\* optional file that was absent.
C19_AbsentOptionalFileLeavesWarning ==
    run.pc = "done" =>
        \A name \in AbsentOptionalFiles :
            \E k \in 1..Len(Unwrap(run.result).warnings) :
                Unwrap(run.result).warnings[k] \in WarningsAbout(name)

\* The row of the phase table an event belongs to, by its step; the HTML
\* phase, row 4, has no step of its own in reconstruct_from_path.
PhaseOf(step) ==
    CASE step = "Initializing" -> 1
      [] step = "Extracting" -> 2
      [] step = "Resolving Identities" -> 3
      [] step = "Parsing Chat JSON" -> 5
      [] step = "Parsing Snap History" -> 6
      [] step = "Linking Media" -> 7
      [] step = "Processing Memories" -> 8
      [] step = "Saving to Database" -> 9
      [] step = "Complete" -> 10
      [] OTHER -> 4

\* The fractions of the phase table, in hundredths: [lo, hi] of each row.
PhaseTable ==
    <<<<5, 5>>, <<0, 10>>, <<8, 8>>, <<10, 35>>, <<38, 38>>, <<42, 42>>, <<50, 50>>,
      <<65, 65>>, <<75, 75>>, <<100, 100>>>>

\* The call is the import of a zip.
IsZipImport == zip.pc # "idle"

\* C20: the progress events of a finished call follow the phase table:
\* every phase has an event (Extract for a zip import only), the events
\* come in the order of the table with the fractions of their rows, every
\* fraction lies in [0, 1] and the last is 1.
C20_ProgressFollowsPhaseTable ==
    run.pc = "done" =>
        LET p == run.progress
            phase(k) == PhaseOf(p[k].step)
        IN  /\ \A row \in 1..Len(PhaseTable) :
                  (row # 2 \/ IsZipImport) => \E k \in 1..Len(p) : phase(k) = row
            /\ \A k \in 1..Len(p) : phase(k) = 2 => IsZipImport
            /\ \A i, j \in 1..Len(p) : i < j => phase(i) <= phase(j)
            /\ \A k \in 1..Len(p) :
                  /\ p[k].num * 100 >= PhaseTable[phase(k)][1] * p[k].den
                  /\ p[k].num * 100 <= PhaseTable[phase(k)][2] * p[k].den
                  /\ 0 <= p[k].num /\ p[k].num <= p[k].den
            /\ p # << >> /\ p[Len(p)].num = p[Len(p)].den

(***************************************************************************)
(* ExportDetector (ingestion/detector.rs).  A scanned directory is the set *)
(* of its entries; an entry has a file name, a kind (a directory, a file   *)
(* that opens as a zip archive, any other file) and the names it holds:    *)
(* the children of a directory, the entry names of an archive.  All the    *)
(* candidates of one scan have the same parent, so a path is compared and  *)
(* named by its file name.                                                 *)
(***************************************************************************)
IsDigit(c) == c \in {"0", "1", "2", "3", "4", "5", "6", "7", "8", "9"}

MydataTilde == <<"m", "y", "d", "a", "t", "a", "~">>

DotZip == <<".", "z", "i", "p">>

StartsWith(s, p) == Len(s) >= Len(p) /\ SubSeq(s, 1, Len(p)) = p

\* str::contains
Contains(s, p) == \E i \in 1..(Len(s) - Len(p) + 1) : SubSeq(s, i, i + Len(p) - 1) = p

RECURSIVE DigitRun(_, _)
\* The number of digits of s that follow one another from place i on: what
\* a greedy \d+ takes there.
DigitRun(s, i) == IF i <= Len(s) /\ IsDigit(s[i]) THEN 1 + DigitRun(s, i + 1) ELSE 0

\* The end of a name after the base id or after the part number:
\* (?:\.zip)?$
MatchTail(r) == r = << >> \/ r = DotZip

\* The regex without its part number: ^(mydata~\d+)(?:\.zip)?$
EXPORT_ID_RE_NoPart(name) ==
    IF ~StartsWith(name, MydataTilde) THEN None
    ELSE LET n == DigitRun(name, Len(MydataTilde) + 1)
         IN  IF n > 0 /\ MatchTail(SubSeq(name, Len(MydataTilde) + n + 1, Len(name)))
             THEN Some(SubSeq(name, 1, Len(MydataTilde) + n))
             ELSE None

\* EXPORT_ID_RE.captures(&name), then caps.get(1) (detector.rs:10-12, 105-106):
\* ^(mydata~\d+)(?:-\d+)?(?:\.zip)?$ .  None when the name does not match.
EXPORT_ID_RE(name) ==
    IF ~StartsWith(name, MydataTilde) THEN None
    ELSE LET n == DigitRun(name, Len(MydataTilde) + 1)
             rest == SubSeq(name, Len(MydataTilde) + n + 1, Len(name))
             part == IF rest # << >> /\ rest[1] = "-" THEN DigitRun(rest, 2) ELSE 0
         IN  IF n > 0 /\ (\/ MatchTail(rest)
                          \/ part > 0 /\ MatchTail(SubSeq(rest, part + 2, Len(rest))))
             THEN Some(SubSeq(name, 1, Len(MydataTilde) + n))
             ELSE None

\* The place of the last '.' of a name, 0 when it has none.
LastDot(name) ==
    LET dots == {i \in 1..Len(name) : name[i] = "."}
    IN  IF dots = {} THEN 0 ELSE CHOOSE i \in dots : \A j \in dots : j <= i

\* Path::file_stem: the name before its last '.', the whole name when it
\* has no '.' or only a leading one.
file_stem(name) ==
    IF LastDot(name) <= 1 THEN name ELSE SubSeq(name, 1, LastDot(name) - 1)

\* Path::extension
extension(name) ==
    IF LastDot(name) <= 1 THEN None ELSE Some(SubSeq(name, LastDot(name) + 1, Len(name)))

\* char::to_lowercase on the letters of the model's names.
ToLowerChar(c) ==
    CASE c = "M" -> "m"
      [] c = "S" -> "s"
      [] c = "Z" -> "z"
      [] OTHER -> c

to_lowercase(s) == [i \in 1..Len(s) |-> ToLowerChar(s[i])]

\* The byte of a character of the model's names (ASCII).
ByteOf(c) ==
    CASE c = "-" -> 45 [] c = "." -> 46
      [] c = "0" -> 48 [] c = "1" -> 49 [] c = "2" -> 50 [] c = "3" -> 51 [] c = "4" -> 52
      [] c = "5" -> 53 [] c = "6" -> 54 [] c = "7" -> 55 [] c = "8" -> 56 [] c = "9" -> 57
      [] c = "M" -> 77 [] c = "S" -> 83 [] c = "Z" -> 90
      [] c = "a" -> 97 [] c = "c" -> 99 [] c = "d" -> 100 [] c = "h" -> 104
      [] c = "i" -> 105 [] c = "m" -> 109 [] c = "n" -> 110 [] c = "o" -> 111
      [] c = "p" -> 112 [] c = "r" -> 114 [] c = "s" -> 115 [] c = "t" -> 116
      [] c = "x" -> 120 [] c = "y" -> 121 [] c = "z" -> 122 [] c = "~" -> 126
      [] OTHER -> 0

RECURSIVE NameLeq(_, _)
\* Ord of two paths with the same parent: their file names byte by byte.
NameLeq(a, b) ==
    IF a = << >> THEN TRUE
    ELSE IF b = << >> THEN FALSE
    ELSE IF ByteOf(a[1]) # ByteOf(b[1]) THEN ByteOf(a[1]) < ByteOf(b[1])
    ELSE NameLeq(Tail(a), Tail(b))

RECURSIVE SortMembers(_)
\* members.sort() (detector.rs:118) of members with different names.
SortMembers(members) ==
    IF members = {} THEN << >>
    ELSE LET least == CHOOSE m \in members : \A o \in members : NameLeq(m.name, o.name)
         IN  <<least>> \o SortMembers(members \ {least})

\* The broad filter of detect_in_directory (detector.rs:88-93).
IsCandidate(entry) ==
    LET name == to_lowercase(entry.name)
    IN  StartsWith(name, MydataTilde)
            \/ Contains(name, <<"s", "n", "a", "p", "c", "h", "a", "t">>)

\* The key of the group a candidate is pushed to (detector.rs:104-112).
GroupKey(name) ==
    IF IsSome(EXPORT_ID_RE(name)) THEN Unwrap(EXPORT_ID_RE(name)) ELSE file_stem(name)

\* archive.by_name("index.html").is_ok()
ArchiveHasIndex(names) == "index.html" \in names

\* archive.file_names().any(|n| n.contains("html/chat_history"))
ArchiveHasChat(names) == names \cap {"html/chat_history/", "html/chat_history/subpage_a.html"} # {}

\* archive.file_names().any(|n| n.contains("chat_media/") || n.contains("media/"))
ArchiveHasMedia(names) == names \cap {"chat_media/a.jpg", "media/a.jpg"} # {}

\* The last four branches of both validations (detector.rs:177-185, 230-238).
StatusOf(has_index, has_chat, has_media, nonEmpty) ==
    IF has_index /\ has_chat /\ has_media THEN "Valid"
    ELSE IF has_index THEN "Incomplete"
    ELSE IF nonEmpty THEN "Incomplete"
    ELSE "Unknown"

\* ExportDetector::validate_zip_group (detector.rs:162-186): only a member
\* that opens as an archive is looked into.
validate_zip_group(members) ==
    LET archives == {m \in members : m.kind = "zip"}
    IN  StatusOf(\E m \in archives : ArchiveHasIndex(m.holds),
                 \E m \in archives : ArchiveHasChat(m.holds),
                 \E m \in archives : ArchiveHasMedia(m.holds),
                 members # {})

\* ExportDetector::validate_folder_group (detector.rs:212-239); parentHolds
\* is what the parent of the members holds.
validate_folder_group(members, parentHolds) ==
    LET dirs == {m \in members : m.kind = "dir"}
    IN  StatusOf((\E m \in dirs : "index.html" \in m.holds)
                     \/ (members # {} /\ "index.html" \in parentHolds),
                 \E m \in dirs : "html/chat_history" \in m.holds,
                 \E m \in dirs : "chat_media" \in m.holds \/ "media" \in m.holds,
                 members # {})

\* The ExportSet of one group (detector.rs:116-139); creation_date and
\* extraction_path, which no later step of the detector reads, are left out.
GroupExport(id, members, parentHolds) ==
    LET is_zip == \E m \in members : extension(m.name) = Some(<<"z", "i", "p">>)
    IN  [id |-> id,
         source_paths |-> LET sorted == SortMembers(members)
                          IN  [i \in 1..Len(sorted) |-> sorted[i].name],
         source_type |-> IF is_zip THEN "Zip" ELSE "Folder",
         validation_status |-> IF is_zip THEN validate_zip_group(members)
                               ELSE validate_folder_group(members, parentHolds)]

\* ExportDetector::group_candidates (detector.rs:100-143).  The Vec it
\* returns is in the order of a HashMap's iteration: a set here.
group_candidates(candidates, parentHolds) ==
    LET keys == {GroupKey(c.name) : c \in candidates}
        all == {GroupExport(k, {c \in candidates : GroupKey(c.name) = k}, parentHolds) : k \in keys}
    IN  {x \in all : x.validation_status # "Unknown"}

\* ExportDetector::validate_folder (detector.rs:188-210)
validate_folder(dir) ==
    IF "index.html" \in dir.holds
    THEN Some([id |-> dir.name,
               source_paths |-> <<dir.name>>,
               source_type |-> "Folder",
               validation_status |->
                   IF "html/chat_history" \in dir.holds
                          /\ ("chat_media" \in dir.holds \/ "media" \in dir.holds)
                   THEN "Valid" ELSE "Incomplete"])
    ELSE None

\* ExportDetector::validate_zip (detector.rs:145-160)
validate_zip(path) ==
    IF path.kind # "zip" THEN None
    ELSE IF ArchiveHasIndex(path.holds) /\ ArchiveHasChat(path.holds) /\ ArchiveHasMedia(path.holds)
    THEN Some("Valid")
    ELSE IF ArchiveHasIndex(path.holds) THEN Some("Incomplete")
    ELSE None

\* ExportDetector::detect_in_directory (detector.rs:57-97): the path is a
\* file, or a directory that is an export itself, or a directory that is
\* scanned for candidates.
detect_in_directory(path) ==
    IF path.kind # "dir"
    THEN IF IsSome(extension(path.name))
                /\ to_lowercase(Unwrap(extension(path.name))) = <<"z", "i", "p">>
                /\ IsSome(validate_zip(path))
         THEN {[id |-> path.name,
                source_paths |-> <<path.name>>,
                source_type |-> "Zip",
                validation_status |-> Unwrap(validate_zip(path))]}
         ELSE {}
    ELSE IF IsSome(validate_folder(path)) THEN {Unwrap(validate_folder(path))}
    ELSE group_candidates({e \in path.entries : IsCandidate(e)}, path.holds)

\* The command detect_exports of one path (detector.rs:57).
DetectInDirectory(dirs) ==
    \E dir \in dirs :
        /\ resp' = [op |-> "detect_in_directory", status |-> "ok", dir |-> dir,
                    exports |-> detect_in_directory(dir)]
        /\ UNCHANGED <<store, linker, zip, run, downloader, pool, data_dir, txn, peer>>

(***************************************************************************)
(* SpecDetect: directories of at most MaxCandidates entries, and single    *)
(* files, are scanned.                                                     *)
(***************************************************************************)
MaxCandidates == 2

Entry(name, kind, holds) == [name |-> name, kind |-> kind, holds |-> holds, entries |-> {}]

AllOfArchive == {"index.html", "html/chat_history/subpage_a.html", "chat_media/a.jpg"}

AllOfFolder == {"index.html", "html/chat_history", "chat_media"}

\* mydata~1, mydata~1.zip, mydata~1-1.zip, mydata~1-2.zip, mydata~1-10.zip,
\* mydata~12-3, mydata~2.zip, mydata~1.tar, mydata~1-.zip, mydata~x,
\* Mydata~1.ZIP, snapchat.zip, notes.zip
EntryPool ==
    {Entry(MydataTilde \o <<"1">>, "dir", {}),
     Entry(MydataTilde \o <<"1">>, "dir", AllOfFolder),
     Entry(MydataTilde \o <<"1">> \o DotZip, "zip", {"index.html"}),
     Entry(MydataTilde \o <<"1", "-", "1">> \o DotZip, "zip",
           {"index.html", "html/chat_history/subpage_a.html"}),
     Entry(MydataTilde \o <<"1", "-", "2">> \o DotZip, "zip", {"media/a.jpg"}),
     Entry(MydataTilde \o <<"1", "-", "1", "0">> \o DotZip, "zip", {"chat_media/a.jpg"}),
     Entry(MydataTilde \o <<"1", "2", "-", "3">>, "dir", {"html/chat_history", "media"}),
     Entry(MydataTilde \o <<"2">> \o DotZip, "zip", {}),
     Entry(MydataTilde \o <<"2">> \o DotZip, "file", {}),
     Entry(MydataTilde \o <<"1", ".", "t", "a", "r">>, "file", {}),
     Entry(MydataTilde \o <<"1", "-">> \o DotZip, "zip", AllOfArchive),
     Entry(MydataTilde \o <<"x">>, "dir", {"index.html"}),
     Entry(<<"M", "y", "d", "a", "t", "a", "~", "1", ".", "Z", "I", "P">>, "zip", AllOfArchive),
     Entry(<<"s", "n", "a", "p", "c", "h", "a", "t">> \o DotZip, "zip", AllOfArchive),
     Entry(<<"n", "o", "t", "e", "s">> \o DotZip, "zip", AllOfArchive)}

\* Entries of one directory have different names.
EntrySets(max) ==
    {es \in UNION {KSubsets(EntryPool, m) : m \in 0..max} :
        \A a, b \in es : a.name = b.name => a = b}

ScanPaths ==
    {[name |-> <<"d">>, kind |-> "dir", holds |-> {}, entries |-> es] : es \in EntrySets(MaxCandidates)}
        \cup {[name |-> <<"d">>, kind |-> "dir", holds |-> AllOfFolder, entries |-> {}],
              [name |-> <<"d">>, kind |-> "dir", holds |-> {"index.html"}, entries |-> {}]}
        \cup EntryPool

NextDetect == DetectInDirectory(ScanPaths)

SpecDetect == InitStore /\ [][NextDetect]_vars

\* A text of one digit or more, all digits.
AllDigits(s) == s # << >> /\ \A k \in 1..Len(s) : IsDigit(s[k])

\* base is mydata~<digits> and name is base, optionally followed by
\* -<digits> and optionally by .zip.
IsPartOf(name, base) ==
    /\ StartsWith(base, MydataTilde)
    /\ AllDigits(SubSeq(base, Len(MydataTilde) + 1, Len(base)))
    /\ \E tail \in {<< >>, DotZip} :
          \/ name = base \o tail
          \/ \E j \in 1..Len(name) :
                /\ AllDigits(SubSeq(name, Len(base) + 2, j))
                /\ name = base \o <<"-">> \o SubSeq(name, Len(base) + 2, j) \o tail

BasesOf(name) == {base \in {SubSeq(name, 1, i) : i \in 1..Len(name)} : IsPartOf(name, base)}

\* The group a candidate belongs to by the grouping rule.
ExpectedKey(name) ==
    IF BasesOf(name) # {} THEN CHOOSE base \in BasesOf(name) : TRUE ELSE file_stem(name)

\* The last call scanned a directory for candidates.
Scanned ==
    /\ resp.op = "detect_in_directory"
    /\ resp.dir.kind = "dir"
    /\ "index.html" \notin resp.dir.holds

\* C21: after a directory is scanned, every candidate named
\* mydata~<digits>[-<digits>][.zip] is a source path of the one ExportSet
\* whose id is its mydata~<digits> prefix, every other candidate is a source
\* path of the one ExportSet whose id is its file stem, and the source paths
\* of every ExportSet are candidates of its group in sorted order.
C21_PartsFormOneExportSet ==
    Scanned =>
        /\ \A e \in {c \in resp.dir.entries : IsCandidate(c)} :
              /\ Cardinality(BasesOf(e.name)) <= 1
              /\ \E x \in resp.exports :
                    /\ x.id = ExpectedKey(e.name)
                    /\ e.name \in Range(x.source_paths)
                    /\ \A y \in resp.exports : y.id = x.id => y = x
        /\ \A x \in resp.exports :
              /\ \A i, j \in 1..Len(x.source_paths) :
                    i < j => /\ NameLeq(x.source_paths[i], x.source_paths[j])
                             /\ x.source_paths[i] # x.source_paths[j]
              /\ \A i \in 1..Len(x.source_paths) :
                    \E c \in resp.dir.entries :
                        /\ IsCandidate(c)
                        /\ c.name = x.source_paths[i]
                        /\ ExpectedKey(c.name) = x.id

\* The two parts mydata~1-1.zip and mydata~1-2.zip have become the one
\* ExportSet mydata~1.
C21_Witness ==
    /\ Scanned
    /\ \E x \in resp.exports :
          /\ x.id = MydataTilde \o <<"1">>
          /\ x.source_paths = <<MydataTilde \o <<"1", "-", "1">> \o DotZip,
                                MydataTilde \o <<"1", "-", "2">> \o DotZip>>

\* The members of the group of key k in the last scan.
GroupOf(k) == {c \in resp.dir.entries : IsCandidate(c) /\ GroupKey(c.name) = k}

\* A group with a member whose extension is zip is looked at as archives,
\* any other group as folders.
IsZipGroup(members) == \E m \in members : extension(m.name) = Some(<<"z", "i", "p">>)

\* The signatures observed across the members of a group: the index
\* document, the chat-history subtree, the media subtree.
SignaturesOf(members) ==
    IF IsZipGroup(members)
    THEN {sig \in {"index", "chat", "media"} :
             \E m \in members :
                 /\ m.kind = "zip"
                 /\ \/ sig = "index" /\ "index.html" \in m.holds
                    \/ sig = "chat" /\ "html/chat_history/subpage_a.html" \in m.holds
                    \/ sig = "media" /\ m.holds \cap {"chat_media/a.jpg", "media/a.jpg"} # {}}
    ELSE {sig \in {"index", "chat", "media"} :
             \E m \in members :
                 /\ m.kind = "dir"
                 /\ \/ sig = "index" /\ "index.html" \in m.holds
                    \/ sig = "chat" /\ "html/chat_history" \in m.holds
                    \/ sig = "media" /\ m.holds \cap {"chat_media", "media"} # {}}

\* C22: a group is reported Valid exactly when all three signatures are
\* observed across its members, Incomplete when only some are, and is not
\* reported at all when none is.
C22_StatusFollowsSignatures ==
    Scanned =>
        \A k \in {GroupKey(c.name) : c \in {e \in resp.dir.entries : IsCandidate(e)}} :
            LET n == Cardinality(SignaturesOf(GroupOf(k)))
                reported == {x \in resp.exports : x.id = k}
            IN  /\ n = 3 <=> \E x \in reported : x.validation_status = "Valid"
                /\ n \in {1, 2} => \E x \in reported : x.validation_status = "Incomplete"
                /\ n = 0 => reported = {}

(***************************************************************************)
(* reimport_data (lib.rs:685-728).  data_dir is                            *)
(*   [pc |-> "files", index_db, wal, shm : whether the file is there,      *)
(*    sources : the source paths that exist,                               *)
(*    reimported : the export of the last call that wiped the database].   *)
(* A database file that is not there holds no rows.  The connections that  *)
(* db_for_app opens are closed when reimport_data drops the manager, which *)
(* leaves the WAL and SHM files as they were.                              *)
(***************************************************************************)
\* The rows that stay after index.db is kept as it is.
WipeDbNot(st) == st

\* lib.rs:713-724: index.db is removed; the DatabaseManager::new of the
\* process_export that follows makes a database without rows.
WipeDb(st) == EmptyStore

\* The Err returns of reimport_data (lib.rs:698, 703-706, 715): nothing
\* has been written or removed.
ReimportFails(message) ==
    /\ resp' = [op |-> "reimport_data", status |-> "err", error |-> message]
    /\ UNCHANGED <<store, linker, zip, run, downloader, pool, data_dir, txn, peer>>

\* reimport_data up to the first step of the process_export it calls
\* (lib.rs:67-93 with 106-137 for a folder).  exports.into_iter().next() is
\* the stored row with the least rowid; the table of the model keeps no
\* rowids, so any stored row may be the first.
ReimportData(dirs, disks, maxParts, maxRuns) ==
    /\ data_dir.pc = "files"
    /\ run.pc \in {"ready", "done", "failed"}
    /\ run.runs < maxRuns
    /\ \/ /\ ~data_dir.index_db \/ store.exports = {}
          /\ ReimportFails("No existing import to reimport from.")
       \/ \E export \in store.exports :
             /\ data_dir.index_db
             /\ \/ /\ export.source_path \notin data_dir.sources
                   /\ ReimportFails("Original export path no longer exists")
                \/ /\ export.source_path \in data_dir.sources
                   /\ ReimportFails("Io")
                \/ /\ export.source_path \in data_dir.sources
                   /\ export.source_type = "Folder"
                   /\ \E dir \in dirs :
                         run' = [NewRun("friends", run.next_id, run.runs + 1) EXCEPT
                                    !.export_id = export.id, !.dir = dir,
                                    !.progress = Emit(<< >>, "Initializing", 5)]
                   /\ store' = insert_export(WipeDb(store), export)
                   /\ data_dir' = [DbOpened(DbRemoved(data_dir)) EXCEPT
                                      !.reimported = Some(export)]
                   /\ resp' = [op |-> "reimport_data", status |-> "running"]
                   /\ UNCHANGED <<linker, zip, downloader, pool, txn, peer>>
                \/ /\ export.source_path \in data_dir.sources
                   /\ export.source_type = "Zip"
                   /\ \E disk \in disks, total_parts \in 0..maxParts :
                         LET dir == IF ~PathExists(disk, working_dir)
                                    THEN create_dir_all(disk, working_dir)
                                    ELSE [ok |-> TRUE, disk |-> disk, made |-> {}]
                             r == [NewRun("extracting", run.next_id, run.runs + 1) EXCEPT
                                      !.export_id = export.id]
                         IN  /\ run' = IF dir.ok THEN r ELSE [r EXCEPT !.pc = "failed"]
                             /\ zip' = IF dir.ok
                                       THEN NewZip(dir.disk, working_dir, export.id, total_parts)
                                       ELSE Idle
                   /\ store' = WipeDb(store)
                   /\ data_dir' = [DbRemoved(data_dir) EXCEPT !.reimported = Some(export)]
                   /\ resp' = [op |-> "reimport_data", status |-> "running"]
                   /\ UNCHANGED <<linker, downloader, pool, txn, peer>>

(***************************************************************************)
(* SpecReimport: reimport_data is called on an app data directory without  *)
(* a database, with a database without rows, and with databases that hold  *)
(* one or two exports and rows of an earlier import, with and without      *)
(* their source paths.                                                     *)
(***************************************************************************)
OtherExport ==
    [id |-> "x2", source_path |-> <<"s", "x2">>, source_type |-> "Folder",
     validation_status |-> "Valid"]

\* A database after an import of export x whose source held a conversation
\* "old", and after a storage path was set.
ImportedStore(x) ==
    LET s1 == insert_export(EmptyStore, x)
        s2 == insert_people(s1, <<[username |-> "old", display_name |-> None]>>)
        s3 == batch_insert_conversations(s2, <<Conv("old", None, None, 0)>>)
        s4 == batch_insert_events(
                  s3, <<Ev(99, Some("old"), "old", 1, "TEXT", Some(<<"a">>), << >>, None)>>,
                  x.id).st
    IN  [s4 EXCEPT !.settings = {[key |-> "storage_path", value |-> <<"m">>]}]

ReimportStores ==
    {EmptyStore, ImportedStore(TheExport), ImportedStore(ZipExport),
     insert_export(ImportedStore(TheExport), OtherExport)}

SourceSets == SUBSET {TheExport.source_path, ZipExport.source_path}

InitReimport ==
    /\ resp = NoResp
    /\ txn = Idle
    /\ peer = Idle
    /\ pool = Idle
    /\ downloader = Idle
    /\ linker = Idle
    /\ zip = Idle
    /\ run = NewRun("ready", 1, 0)
    /\ \E index_db \in BOOLEAN, files \in BOOLEAN, sources \in SourceSets :
          /\ data_dir = [pc |-> "files", index_db |-> index_db,
                         wal |-> index_db /\ files, shm |-> index_db /\ files,
                         sources |-> sources, reimported |-> None]
          /\ store \in (IF index_db THEN ReimportStores ELSE {EmptyStore})

NextReimport ==
    \/ ReimportData({FullDir, BareDir}, ExportDisks, MaxParts, MaxExportRuns)
    \/ ZipStart
    \/ ZipOpenPart(PartKinds, MaxEntries)
    \/ ZipEntry(ExportEntryNames, ExportEntrySizes)
    \/ ZipFinish
    \/ ExtractReturned({FullDir, BareDir})
    \/ ExtractFailed
    \/ Friends
    \/ ParseHtml
    \/ ParseChatJson
    \/ ReconcileStep
    \/ ParseSnap
    \/ LinkPhase
    \/ ParseMemories
    \/ SaveConversations
    \/ SaveEvents
    \/ Finish

SpecReimport == InitReimport /\ [][NextReimport]_vars

\* No row of the database is from before the wipe of the last reimport.
OnlyRowsOfReimport ==
    IsSome(data_dir.reimported) =>
        LET x == Unwrap(data_dir.reimported)
        IN  /\ store.exports \subseteq {x}
            /\ store.settings = {}
            /\ \A p \in store.people : p.username # "old"
            /\ \A c \in store.conversations : c.id # "old"
            /\ 99 \notin DOMAIN store.events
            /\ \A id \in DOMAIN store.events : store.events[id].export_id = x.id
            /\ \A id \in DOMAIN store.events_fts : id \in DOMAIN store.events
            /\ \A m \in store.memories : m.export_id = x.id

\* What one step of reimport_data may do.
ReimportStepIsGuarded ==
    /\ (resp'.op = "reimport_data" /\ resp'.status = "err")
           => (store' = store /\ data_dir' = data_dir /\ run' = run)
    /\ (/\ run.pc \in {"ready", "done", "failed"}
        /\ \/ ~data_dir.index_db
           \/ store.exports = {}
           \/ \A x \in store.exports : x.source_path \notin data_dir.sources)
           => (/\ store' = store /\ data_dir' = data_dir /\ run' = run
               /\ resp'.op = "reimport_data" /\ resp'.status = "err")
    /\ (run'.runs # run.runs \/ (data_dir.index_db /\ ~data_dir'.index_db)
            \/ data_dir'.reimported # data_dir.reimported)
           => \E x \in store.exports :
                 /\ data_dir.index_db
                 /\ x.source_path \in data_dir.sources
                 /\ data_dir'.reimported = Some(x)
                 /\ run'.export_id = x.id
                 /\ store' \in {EmptyStore, insert_export(EmptyStore, x)}
                 /\ ~data_dir'.wal /\ ~data_dir'.shm

\* C23: reimport_data returns an error and leaves the database and its
\* files as they are when there is no database file, no stored export or
\* no source path of the stored export; only a call that finds the source
\* path removes index.db with its WAL and SHM files and runs process_export
\* on the stored export, and from then on the database holds no row from
\* before that call.
C23_ReimportWipesOnlyWithSource ==
    [][ReimportStepIsGuarded]_vars /\ []OnlyRowsOfReimport

\* A reimport of the folder export has run to its end on a database that
\* held rows of an earlier import, and has written events.
C23_Witness ==
    /\ data_dir.pc = "files"
    /\ data_dir.reimported = Some(TheExport)
    /\ run.pc = "done"
    /\ DOMAIN store.events # {}

(***************************************************************************)
(* Reads of rows whose timestamp text is no RFC 3339 date.  The program    *)
(* writes every timestamp with to_rfc3339; such a row is in a database     *)
(* written by another hand, and the reads are written for it (db.rs:450).  *)
(***************************************************************************)
\* db.rs:755  limit.clamp(1, 1000) in get_unified_media_stream
MediaLimitMax == 1000

\* limit.clamp(1, 1000) (db.rs:755)
ClampMediaLimit(limit) == Min(Max(limit, 1), MediaLimitMax)

\* get_memories(None) as a command (lib.rs, db.rs:600-623)
GetMemories ==
    /\ \E memories \in get_memories(store) :
          resp' = [op |-> "get_memories", status |-> "ok", memories |-> memories]
    /\ UNCHANGED <<store, linker, zip, run, downloader, pool, data_dir, txn, peer>>

\* The rows of the UNION ALL of get_unified_media_stream (db.rs:772-780):
\* the events with media references and a media type, with the first of
\* their references as path, and the memories with a media path.  An id is
\* written with its table before it, the ids of events being numbers and
\* those of memories texts in the model.
MediaStreamRows(st) ==
    {[id |-> <<"events", e.id>>,
      path |-> media_references_from_json(e.media_references)[1],
      media_type |-> e.event_type,
      timestamp |-> e.timestamp,
      source |-> "local"] :
        e \in {r \in Events(st) : /\ r.media_references # EmptyJsonArray
                                  /\ r.event_type \in MediaEventTypes}}
    \cup
    {[id |-> <<"memories", m.id>>,
      path |-> PathFromText(Unwrap(m.media_path)),
      media_type |-> m.media_type,
      timestamp |-> m.timestamp,
      source |-> "cloud"] :
        m \in {r \in st.memories : IsSome(r.media_path)}}

\* The closure of the query_map of get_unified_media_stream (db.rs:787-806);
\* now is what Utc::now() returns.
MediaStreamEntry(row, now) ==
    [id |-> row.id,
     path |-> row.path,
     media_type |-> IF row.media_type \in {"SNAP_VIDEO", "VIDEO", "Video"}
                    THEN "Video" ELSE "Image",
     timestamp |-> IF IsSome(parse_from_rfc3339(row.timestamp))
                   THEN Unwrap(parse_from_rfc3339(row.timestamp))
                   ELSE now,
     source |-> row.source]

\* get_unified_media_stream (db.rs:754-815).  The sum offset + limit of
\* db.rs:813 is an i32 addition, as in get_messages_page.
GetUnifiedMediaStream(limits, offsets, clock) ==
    \E limit \in limits, offset \in offsets, now \in clock :
        LET lim == ClampMediaLimit(limit)
            off == ClampOffset(offset)
            rows == MediaStreamRows(store)
            total_count == Cardinality(rows)
        IN  /\ \E ordered \in OrderedByTimestampDesc(rows) :
                   LET page == LimitOffset(ordered, lim, off)
                       ok(has_more) ==
                           [op |-> "get_unified_media_stream", status |-> "ok",
                            limit |-> limit, offset |-> offset,
                            items |-> [k \in 1..Len(page) |-> MediaStreamEntry(page[k], now)],
                            total_count |-> total_count, has_more |-> has_more]
                   IN  IF AddOverflows(off, lim)
                       THEN \/ resp' = [op |-> "get_unified_media_stream", status |-> "panic",
                                        limit |-> limit, offset |-> offset]
                            \/ resp' = ok(WrappingAdd(off, lim) < total_count)
                       ELSE resp' = ok(off + lim < total_count)
            /\ UNCHANGED <<store, linker, zip, run, downloader, pool, data_dir, txn, peer>>

(***************************************************************************)
(* SpecBadTime: a database with two events of one conversation and one     *)
(* memory, any of them with a timestamp text that is no date, is read by   *)
(* every read that returns timestamps.                                     *)
(***************************************************************************)
\* A timestamp text that does not parse; its second item is its place in
\* the order of the texts, after every date of the model.
BadText == <<"no date", 1000>>

GoodTimeStore ==
    LET s1 == insert_export(EmptyStore, TheExport)
        s2 == batch_insert_conversations(s1, <<Conv("c1", None, None, 0)>>)
        s3 == batch_insert_events(
                  s2,
                  <<Ev(1, Some("c1"), "a", 5, "MEDIA", Some(<<"a">>), <<"p1">>, None),
                    Ev(2, Some("c1"), "b", 6, "TEXT", Some(<<"a">>), << >>, None)>>,
                  "x1").st
    IN  batch_insert_memories(
            s3, <<Mem("m1", 7, "Image", Some(OldPath), "x1", Some("u"), "Downloaded")>>).st

\* The store with the timestamps of the events of ids and, if memory, of
\* the memory replaced by a text that is no date.
WithBadTimes(st, ids, memory) ==
    [st EXCEPT
        !.events = [id \in DOMAIN @ |->
                       IF id \in ids THEN [@[id] EXCEPT !.timestamp = BadText] ELSE @[id]],
        !.memories = {IF memory THEN [m EXCEPT !.timestamp = BadText] ELSE m : m \in @}]

InitBadTime ==
    /\ resp = NoResp
    /\ data_dir = Idle
    /\ txn = Idle
    /\ peer = Idle
    /\ pool = Idle
    /\ downloader = Idle
    /\ linker = Idle
    /\ zip = Idle
    /\ run = Idle
    /\ \E ids \in SUBSET {1, 2}, memory \in BOOLEAN :
          store = WithBadTimes(GoodTimeStore, ids, memory)

Clock == {50, 60}

NextBadTime ==
    \/ GetMessages({"c1"})
    \/ GetMessagesPage({"c1"}, {0, 1}, {1, 10})
    \/ SearchMessages({<<"a">>}, {1, 10})
    \/ GetMemories
    \/ GetUnifiedMediaStream({1, 10}, {0, 1, I32Max}, Clock)

SpecBadTime == InitBadTime /\ [][NextBadTime]_vars

\* The stored timestamp text of a returned item does not parse.
IsBadEvent(id) == ~IsSome(parse_from_rfc3339(store.events[id].timestamp))

IsBadMemory(id) == \E m \in store.memories : m.id = id /\ ~IsSome(parse_from_rfc3339(m.timestamp))

\* C24: every read that returns timestamps succeeds and returns the
\* sentinel minimum for each row whose stored timestamp does not parse.
C24_BadTimestampReadsAsMinimum ==
    /\ resp.op \in {"get_messages", "get_messages_page"} =>
          /\ resp.status = "ok"
          /\ \A k \in 1..Len(resp.messages) :
                IsBadEvent(resp.messages[k].id) => resp.messages[k].timestamp = MIN_UTC
    /\ resp.op = "search_messages" =>
          /\ resp.status = "ok"
          /\ \A r \in resp.results : IsBadEvent(r.event_id) => r.timestamp = MIN_UTC
    /\ resp.op = "get_memories" =>
          /\ resp.status = "ok"
          /\ \A k \in 1..Len(resp.memories) :
                IsBadMemory(resp.memories[k].id) => resp.memories[k].timestamp = MIN_UTC
    /\ (resp.op = "get_unified_media_stream" /\ resp.offset < I32Max) =>
          /\ resp.status = "ok"
          /\ \A k \in 1..Len(resp.items) :
                (\/ resp.items[k].source = "local" /\ IsBadEvent(resp.items[k].id[2])
                 \/ resp.items[k].source = "cloud" /\ IsBadMemory(resp.items[k].id[2]))
                    => resp.items[k].timestamp = MIN_UTC

(***************************************************************************)
(* The full-text index against the events table (db.rs:231-252).           *)
(***************************************************************************)
\* The rows of events_fts stored for one event id.
FtsRowsFor(id) ==
    IF id \in DOMAIN store.events_fts THEN Range(store.events_fts[id]) ELSE {}

\* C25: after any sequence of batch_insert_events calls, a row of the
\* full-text index exists for an event id only if the event row stored under
\* that id has non-empty content, and the index row carries that content.
C25_FtsRowOnlyForStoredContent ==
    \A id \in DOMAIN store.events_fts :
        \A row \in FtsRowsFor(id) :
            /\ id \in DOMAIN store.events
            /\ IsSome(store.events[id].content)
            /\ ~TrimIsEmpty(Unwrap(store.events[id].content))
            /\ row.content = Unwrap(store.events[id].content)

(***************************************************************************)
(* batch_insert_events statement by statement (db.rs:218-256).  The        *)
(* transaction is taken on one pooled connection (db.rs:219-220); its      *)
(* statements write txn.work, and store is what is committed.  A command   *)
(* that reads runs its SELECT on another connection of the pool            *)
(* (db.rs:33-36, 44-46) of a database in WAL mode (db.rs:23).              *)
(*   txn.pc      "idle", "open", "committed" or "rolled_back"              *)
(*   txn.events, txn.export_id   the arguments                             *)
(*   txn.k       the index of the event of the running loop iteration      *)
(*   txn.stmt    "event" or "fts": the statement to be executed next       *)
(*   txn.before  the committed tables when the transaction began           *)
(*   txn.work    the tables as the statements of the transaction see them  *)
(***************************************************************************)
\* What a SELECT on another connection reads with uncommitted rows visible.
VisibleDirty(st, t) == IF t.pc = "open" THEN t.work ELSE st

\* What a SELECT on another connection reads while t is open: in WAL mode,
\* the last committed tables (db.rs:23).
Visible(st, t) == st

\* let tx = conn.transaction()? (db.rs:219-220)
TxBegin(batches, exportIds) ==
    /\ txn.pc \in {"idle", "committed", "rolled_back"}
    /\ \E batch \in batches, xid \in exportIds :
          txn' = [pc |-> "open", events |-> batch, export_id |-> xid, k |-> 1,
                  stmt |-> "event", before |-> store, work |-> store]
    /\ resp' = [op |-> "transaction"]
    /\ UNCHANGED <<store, linker, zip, run, downloader, pool, data_dir, peer>>

\* A statement returned Err: `?` leaves the function, tx is dropped without
\* commit and the transaction is rolled back.
TxRollback ==
    /\ txn' = [pc |-> "rolled_back", events |-> txn.events, export_id |-> txn.export_id,
               k |-> txn.k, before |-> txn.before]
    /\ resp' = [op |-> "batch_insert_events", ok |-> FALSE, events |-> txn.events]
    /\ UNCHANGED <<store, linker, zip, run, downloader, pool, data_dir, peer>>

\* event_stmt.execute(...)? (db.rs:232-245)
TxInsertEventRow ==
    /\ txn.pc = "open" /\ txn.stmt = "event" /\ txn.k <= Len(txn.events)
    /\ LET row == EventRow(txn.events[txn.k], txn.export_id)
       IN  IF ForeignKeysOk(txn.work, row)
           THEN /\ txn' = [txn EXCEPT !.work.events = EventUpsert(@, row), !.stmt = "fts"]
                /\ UNCHANGED <<store, resp, linker, zip, run, downloader, pool, data_dir, peer>>
           ELSE TxRollback

\* The FTS statements of the iteration (db.rs:246-251); fails is whether
\* fts_stmt.execute returns Err.
TxFtsStatements(failures) ==
    /\ txn.pc = "open" /\ txn.stmt = "fts"
    /\ LET e == txn.events[txn.k]
       IN  \E fails \in failures :
              IF fails /\ IsSome(e.content) /\ ~TrimIsEmpty(Unwrap(e.content))
              THEN TxRollback
              ELSE /\ txn' = [txn EXCEPT !.work.events_fts = FtsUpsert(@, e),
                                         !.stmt = "event", !.k = @ + 1]
                   /\ UNCHANGED <<store, resp, linker, zip, run, downloader, pool, data_dir, peer>>

\* tx.commit()? (db.rs:254)
TxCommit ==
    /\ txn.pc = "open" /\ txn.stmt = "event" /\ txn.k > Len(txn.events)
    /\ store' = txn.work
    /\ txn' = [pc |-> "committed", events |-> txn.events, export_id |-> txn.export_id,
               k |-> txn.k, before |-> txn.before]
    /\ resp' = [op |-> "batch_insert_events", ok |-> TRUE, events |-> txn.events]
    /\ UNCHANGED <<linker, zip, run, downloader, pool, data_dir, peer>>

\* One SELECT of a reading command over events and events_fts, as the JOIN
\* of search_messages (db.rs:565-569), on another connection.
ReadTables ==
    /\ resp' = [op |-> "read_tables", during |-> txn.pc = "open",
                events |-> Visible(store, txn).events,
                events_fts |-> Visible(store, txn).events_fts]
    /\ UNCHANGED <<store, linker, zip, run, downloader, pool, data_dir, txn, peer>>

(***************************************************************************)
(* SpecTxn: batches are written statement by statement while a reader      *)
(* reads; some batches fail on a foreign key or on an FTS statement.       *)
(***************************************************************************)
TxnEvents ==
    {Ev(1, None, "a", 0, "TEXT", Some(<<"a">>), << >>, None),
     Ev(1, None, "a", 0, "TEXT", None, << >>, None),
     Ev(2, None, "a", 0, "TEXT", Some(<<"b">>), << >>, None),
     Ev(2, Some("c9"), "a", 0, "TEXT", Some(<<"b">>), << >>, None)}

\* insert_export on another connection: SQLite has one writer, so the INSERT
\* waits (busy_timeout, db.rs:25) while the open transaction holds the write
\* lock, which it takes with its first statement; the model opens the
\* transaction at that point.
InsertExportOutsideTxn ==
    /\ txn.pc # "open"
    /\ InsertExport({TheExport})

NextTxn ==
    \/ InsertExportOutsideTxn
    \/ TxBegin(SeqsUpTo(TxnEvents, MaxBatch), {"x1"})
    \/ TxInsertEventRow
    \/ TxFtsStatements(BOOLEAN)
    \/ TxCommit
    \/ ReadTables

SpecTxn == InitStore /\ [][NextTxn]_vars

\* The event ids of the batch of txn that no row stored before it holds.
FreshIds ==
    {txn.events[k].id : k \in 1..Len(txn.events)}
        \ (DOMAIN txn.before.events \cup DOMAIN txn.before.events_fts)

\* Those of them for which the batch holds an event with non-empty content,
\* that is, for which it executes the FTS statements.
FreshContentIds ==
    {id \in FreshIds :
        \E k \in 1..Len(txn.events) :
            /\ txn.events[k].id = id
            /\ IsSome(txn.events[k].content)
            /\ ~TrimIsEmpty(Unwrap(txn.events[k].content))}

\* Whether id has a row in the index.
HasFtsRow(fts, id) == id \in DOMAIN fts /\ fts[id] # << >>

\* The two tables batch_insert_events writes.
EventTables(st) == <<st.events, st.events_fts>>

\* C26: what a reader reads while or after a batch is written is the
\* committed tables either before the whole batch or after the whole batch,
\* so that the event row and the FTS row of an event id the batch brought in
\* with content are read together or neither is; and a batch of which a statement failed
\* leaves the stored tables as they were.
C26_BatchIsAtomic ==
    /\ (resp.op = "read_tables" /\ txn.pc # "idle") =>
          /\ \/ <<resp.events, resp.events_fts>> = EventTables(txn.before)
             \/ LET after == batch_insert_events(txn.before, txn.events, txn.export_id)
                IN  /\ txn.pc = "committed" /\ after.ok
                    /\ <<resp.events, resp.events_fts>> = EventTables(after.st)
          /\ \A id \in FreshContentIds :
                id \in DOMAIN resp.events <=> HasFtsRow(resp.events_fts, id)
    /\ txn.pc = "open" => EventTables(store) = EventTables(txn.before)
    /\ txn.pc = "rolled_back" =>
          /\ EventTables(store) = EventTables(txn.before)
          /\ \A id \in FreshIds : id \notin DOMAIN store.events /\ ~HasFtsRow(store.events_fts, id)
    /\ txn.pc = "committed" =>
          EventTables(store) =
              EventTables(batch_insert_events(txn.before, txn.events, txn.export_id).st)

\* Witness of C26: a reader read while the open transaction had written the
\* event row of a new event with content and not yet its FTS row.
C26_Witness ==
    /\ txn.pc = "open" /\ txn.stmt = "fts"
    /\ txn.events[txn.k].id \in FreshContentIds
    /\ txn.events[txn.k].id \in DOMAIN txn.work.events
    /\ ~HasFtsRow(txn.work.events_fts, txn.events[txn.k].id)
    /\ resp.op = "read_tables" /\ resp.during
    /\ txn.events[txn.k].id \notin DOMAIN resp.events

(***************************************************************************)
(* The frame of link_media (media_linker.rs:78-126), on SpecLink.          *)
(***************************************************************************)
\* The positions of the media ids of e that are mapped to a file that exists.
ResolvingIds(e, id_map, files) ==
    LET ids == extract_media_ids(e.metadata)
    IN  {i \in 1..Len(ids) : \E m \in id_map : m.id = ids[i] /\ m.path \in files}

\* The paths those ids are mapped to.
ResolvedPaths(e, id_map, files) ==
    LET ids == extract_media_ids(e.metadata)
    IN  {m.path : m \in {n \in id_map : \E i \in ResolvingIds(e, id_map, files) : n.id = ids[i]}}

\* C27: link_media leaves unchanged every event that has media references
\* already and every event whose type is none of MEDIA, NOTE, SNAP,
\* SNAP_VIDEO, STICKER; to each other event it appends one path for every
\* media id of the metadata that is mapped to an existing file and nothing
\* for the other ids, and it changes no field but media_references.
C27_LinkMediaFrame ==
    (linker.pc = "ready" /\ linker.passes >= 1) =>
        /\ Len(linker.events) = Len(linker.input)
        /\ \A k \in 1..Len(linker.input) :
              LET before == linker.input[k]
                  after == linker.events[k]
              IN  /\ [after EXCEPT !.media_references = before.media_references] = before
                  /\ (before.media_references # << >> \/ before.event_type \notin MediaEventTypes)
                        => after = before
                  /\ (before.media_references = << >> /\ before.event_type \in MediaEventTypes)
                        => /\ Len(after.media_references) =
                                  Cardinality(ResolvingIds(before, linker.id_map, linker.files))
                           /\ Range(after.media_references) =
                                  ResolvedPaths(before, linker.id_map, linker.files)

\* Witness of C27: of the two media ids of an event one was mapped to a file
\* that exists and the other to a file that does not, and the event got the
\* one path; an event that came with a reference is in the same list.
C27_Witness ==
    /\ linker.pc = "ready" /\ linker.passes = 1
    /\ \E k \in 1..Len(linker.events) :
          /\ linker.input[k].media_references = << >>
          /\ Len(extract_media_ids(linker.input[k].metadata)) = 2
          /\ \A m \in {"m1", "m2"} : \E n \in linker.id_map : n.id = m
          /\ Len(linker.events[k].media_references) = 1
    /\ \E k \in 1..Len(linker.events) :
          /\ linker.input[k].media_references # << >>
          /\ linker.events[k] = linker.input[k]

(***************************************************************************)
(* Calls of process_export that run at the same time (lib.rs:67-99).  Each *)
(* call is an async command that moves its work to a blocking thread       *)
(* (lib.rs:83-95); reimport_data ends in the same call (lib.rs:727).  No   *)
(* lock is taken on the way.  With data_dir.pc = "ingests":                *)
(*   data_dir.calls[c].pc  "none", "spawned", "extracting", "parsing"      *)
(*   data_dir.calls[c].export        the ExportSet of the call             *)
(*   data_dir.calls[c].via           the command that made the call        *)
(*   data_dir.calls[c].working_path  the directory the call reads and, for *)
(*                                   a zip export, extracts into, once it  *)
(*                                   is chosen                             *)
(*   data_dir.dirs         the directories below the app data directory    *)
(***************************************************************************)
MaxCalls == 2

CallIds == 1..MaxCalls

NoCall == [pc |-> "none"]

\* target_dir.join(export_id) (extractor.rs:20) with target_dir =
\* app_data.join("exports") (lib.rs:76).
extraction_path(export_id) == <<"exports", export_id>>

\* process_export up to spawn_blocking (lib.rs:68-83): the directory exports
\* is made when it is not there.
ProcessExportCall(exports, commands) ==
    /\ data_dir.pc = "ingests"
    /\ \E c \in CallIds, export \in exports, via \in commands :
          /\ data_dir.calls[c].pc = "none"
          /\ data_dir' = [data_dir EXCEPT
                             !.calls[c] = [pc |-> "spawned", export |-> export, via |-> via,
                                           working_path |-> None],
                             !.dirs = @ \cup {<<"exports">>}]
    /\ UNCHANGED <<store, resp, linker, zip, run, downloader, pool, txn, peer>>

\* The blocking thread starts (lib.rs:85-90): a zip export is extracted into
\* exports/<id>, made when it is not there (extractor.rs:20-23); a folder
\* export is read where it is.
WorkingPathChosen ==
    /\ data_dir.pc = "ingests"
    /\ \E c \in CallIds :
          /\ data_dir.calls[c].pc = "spawned"
          /\ LET export == data_dir.calls[c].export
             IN  IF export.source_type = "Zip"
                 THEN data_dir' = [data_dir EXCEPT
                                      !.calls[c].pc = "extracting",
                                      !.calls[c].working_path = Some(extraction_path(export.id)),
                                      !.dirs = @ \cup {extraction_path(export.id)}]
                 ELSE data_dir' = [data_dir EXCEPT
                                      !.calls[c].pc = "parsing",
                                      !.calls[c].working_path = Some(export.source_path)]
    /\ UNCHANGED <<store, resp, linker, zip, run, downloader, pool, txn, peer>>

\* ZipExtractor::extract returns Ok(extraction_path) and
\* reconstruct_from_path starts on it (lib.rs:86-92).
ExtractionDone ==
    /\ data_dir.pc = "ingests"
    /\ \E c \in CallIds :
          /\ data_dir.calls[c].pc = "extracting"
          /\ data_dir' = [data_dir EXCEPT !.calls[c].pc = "parsing"]
    /\ UNCHANGED <<store, resp, linker, zip, run, downloader, pool, txn, peer>>

\* The call returns, with Ok or with Err (lib.rs:93-98).
CallReturns ==
    /\ data_dir.pc = "ingests"
    /\ \E c \in CallIds :
          /\ data_dir.calls[c].pc \in {"extracting", "parsing"}
          /\ data_dir' = [data_dir EXCEPT !.calls[c] = NoCall]
          /\ resp' = [op |-> data_dir.calls[c].via, status |-> "returned"]
    /\ UNCHANGED <<store, linker, zip, run, downloader, pool, txn, peer>>

(***************************************************************************)
(* SpecIngests: the commands are called with zip and folder exports while  *)
(* earlier calls run.                                                      *)
(***************************************************************************)
IngestExports ==
    {[id |-> "x1", source_path |-> <<"s", "x1.zip">>, source_type |-> "Zip",
      validation_status |-> "Valid"],
     [id |-> "x2", source_path |-> <<"s", "x2.zip">>, source_type |-> "Zip",
      validation_status |-> "Valid"],
     [id |-> "x3", source_path |-> <<"s", "x3">>, source_type |-> "Folder",
      validation_status |-> "Valid"]}

InitIngests ==
    /\ store = EmptyStore
    /\ resp = NoResp
    /\ linker = Idle
    /\ zip = Idle
    /\ run = Idle
    /\ downloader = Idle
    /\ pool = Idle
    /\ txn = Idle
    /\ peer = Idle
    /\ data_dir = [pc |-> "ingests", calls |-> [c \in CallIds |-> NoCall], dirs |-> {}]

NextIngests ==
    \/ ProcessExportCall(IngestExports, {"process_export", "reimport_data"})
    \/ WorkingPathChosen
    \/ ExtractionDone
    \/ CallReturns

SpecIngests == InitIngests /\ [][NextIngests]_vars

\* The calls that extract into or parse from the working directory dir.
UsersOf(dir) ==
    {c \in CallIds :
        /\ data_dir.calls[c].pc \in {"extracting", "parsing"}
        /\ data_dir.calls[c].working_path = Some(dir)}

\* C28: at any time at most one call of process_export or reimport_data
\* extracts into or parses from one working directory exports/<export_id>.
C28_WorkingDirHasOneOwner ==
    \A export \in IngestExports :
        Cardinality(UsersOf(extraction_path(export.id))) <= 1

(***************************************************************************)
(* The return paths of download_memory (downloader.rs:67-122), on          *)
(* SpecDownload.                                                           *)
(***************************************************************************)
\* The last call of download_memory has returned.
DownloadReturned ==
    /\ downloader.pc \in {"returned", "batch", "batch_done"}
    /\ downloader.results # << >>

\* C29: when a call of download_memory that has written Downloading
\* returns, the last status it has written is Downloaded or Failed and the
\* row of the memory is not left at Downloading.
C29_NeverLeftDownloading ==
    (DownloadReturned /\ "Downloading" \in Range(downloader.persisted)) =>
        /\ downloader.persisted[Len(downloader.persisted)] \in {"Downloaded", "Failed"}
        /\ \A r \in MemoryRows(downloader.memory.id) : r.download_status # "Downloading"

(***************************************************************************)
(* A second call of the command download_memory (lib.rs:785-794) that runs *)
(* while the call of downloader runs: each command makes its own           *)
(* MemoryDownloader on the same database and the same storage directory,   *)
(* and nothing orders the two.  With peer.pc # "idle":                     *)
(*   peer.pc         "ready", "get", "stream" or "returned"                *)
(*   peer.memory     the Memory of the caller, with the status last set    *)
(*   peer.file_path  the target file                                       *)
(*   peer.file_open  the call holds the target file open for writing       *)
(*   peer.persisted  the statuses the call has written                     *)
(*   peer.results    what the calls have returned                          *)
(* The disk is downloader.disk.                                            *)
(***************************************************************************)
NewPeer ==
    [pc |-> "ready", memory |-> NoMemory, file_path |-> << >>, file_open |-> FALSE,
     persisted |-> << >>, results |-> << >>]

PeerReturn(p, result) ==
    [p EXCEPT !.pc = "returned", !.file_open = FALSE, !.results = Append(@, result)]

\* The command and download_memory up to the GET (lib.rs:785-794,
\* downloader.rs:38-69).
PeerDownloadStart(memories, maxCalls) ==
    /\ peer.pc \in {"ready", "returned"}
    /\ Len(peer.results) < maxCalls
    /\ \E given \in memories :
          LET storage_path == get_setting(store, "storage_path")
              p == [NewPeer EXCEPT !.memory = given, !.results = peer.results]
              storage_root == <<Unwrap(storage_path)>>
              target_dir == TargetDir(storage_root, given)
              dir == IF ~PathExists(downloader.disk, target_dir)
                     THEN create_dir_all(downloader.disk, target_dir)
                     ELSE [ok |-> TRUE, disk |-> downloader.disk, made |-> {}]
              memory == [given EXCEPT !.download_status = "Downloading"]
              ins == batch_insert_memories(store, <<memory>>)
          IN  IF ~IsSome(storage_path)
              THEN peer' = PeerReturn(p, "Err") /\ UNCHANGED <<store, downloader>>
              ELSE IF ~IsSome(given.download_url)
              THEN peer' = PeerReturn(p, "Ok") /\ UNCHANGED <<store, downloader>>
              ELSE IF ~dir.ok
              THEN peer' = PeerReturn(p, "Err") /\ UNCHANGED <<store, downloader>>
              ELSE /\ store' = ins.st
                   /\ downloader' = [downloader EXCEPT !.disk = dir.disk]
                   /\ peer' = IF ~ins.ok
                              THEN PeerReturn(p, "Err")
                              ELSE [p EXCEPT !.pc = "get", !.memory = memory,
                                             !.file_path = FilePath(storage_root, given),
                                             !.persisted = <<"Downloading">>]
    /\ resp' = [op |-> "download_memory"]
    /\ UNCHANGED <<linker, zip, run, pool, data_dir, txn>>

\* The GET and the creation of the file (downloader.rs:71-85).
PeerGet ==
    /\ peer.pc = "get"
    /\ \/ LET memory == MarkFailed(peer.memory)
              ins == batch_insert_memories(store, <<memory>>)
          IN  /\ store' = ins.st
              /\ peer' = IF ins.ok
                         THEN PeerReturn([peer EXCEPT !.memory = memory,
                                                      !.persisted = Append(@, "Failed")], "Ok")
                         ELSE PeerReturn(peer, "Err")
              /\ UNCHANGED downloader
       \/ LET made == file_create(downloader.disk, peer.file_path)
          IN  /\ peer' = IF made.ok
                         THEN [peer EXCEPT !.pc = "stream", !.file_open = TRUE]
                         ELSE PeerReturn(peer, "Err")
              /\ downloader' = [downloader EXCEPT !.disk = made.disk]
              /\ UNCHANGED store
    /\ UNCHANGED <<resp, linker, zip, run, pool, data_dir, txn>>

\* The body stream to its end (downloader.rs:87-122): an item is an error,
\* a write or the flush fails, or Downloaded is written with the path.
PeerStream ==
    /\ peer.pc = "stream"
    /\ \/ LET memory == MarkFailed(peer.memory)
              ins == batch_insert_memories(store, <<memory>>)
          IN  /\ store' = ins.st
              /\ peer' = IF ins.ok
                         THEN PeerReturn([peer EXCEPT !.memory = memory,
                                                      !.persisted = Append(@, "Failed")], "Ok")
                         ELSE PeerReturn(peer, "Err")
       \/ /\ peer' = PeerReturn(peer, "Err")
          /\ UNCHANGED store
       \/ LET memory == MarkDownloaded(peer.memory, peer.file_path)
              ins == batch_insert_memories(store, <<memory>>)
          IN  /\ store' = ins.st
              /\ peer' = IF ins.ok
                         THEN PeerReturn([peer EXCEPT !.memory = memory,
                                                      !.persisted = Append(@, "Downloaded")], "Ok")
                         ELSE PeerReturn(peer, "Err")
    /\ UNCHANGED <<resp, downloader, linker, zip, run, pool, data_dir, txn>>

(***************************************************************************)
(* SpecPeer: the two download commands of SpecDownload and, at any point   *)
(* of them, a second call of download_memory; the store holds memory m1 or *)
(* not and has a storage path.                                             *)
(***************************************************************************)
MaxPeerCalls == 1

PeerStored ==
    {Mem("m1", 7, "Image", None, "x1", Some("u"), "Pending"),
     Mem("m1", 7, "Image", Some(OldPath), "x1", Some("u"), "Downloaded")}

PeerGiven ==
    {Mem("m1", 7, "Image", None, "x1", Some("u"), "Pending"),
     Mem("m1", 7, "Image", None, "x1", None, "Pending"),
     Mem("m3", 7, "Image", None, "zz", Some("u"), "Pending")}

InitPeer ==
    /\ resp = NoResp
    /\ data_dir = Idle
    /\ txn = Idle
    /\ pool = Idle
    /\ linker = Idle
    /\ zip = Idle
    /\ run = Idle
    /\ peer = NewPeer
    /\ \E disk \in DownloadDisks : downloader = NewDownloader(disk, 0)
    /\ \E first \in SUBSET PeerStored, settings \in {{}, {[key |-> "storage_path", value |-> "s"]}} :
          /\ Cardinality(first) <= 1
          /\ store = [insert_export(EmptyStore, TheExport) EXCEPT
                         !.memories = {MemoryRow(m) : m \in first},
                         !.settings = settings]

NextPeer ==
    \/ DownloadMemoryCommand(PeerGiven, MaxPeerCalls)
    \/ DownloadAllMemories(MaxPeerCalls)
    \/ BatchNext
    \/ DownloadStart
    \/ Get(MaxChunks)
    \/ Chunk
    \/ DownloadFinish
    \/ PeerDownloadStart(PeerGiven, MaxPeerCalls)
    \/ PeerGet
    \/ PeerStream

SpecPeer == InitPeer /\ [][NextPeer]_vars

\* A row that is Downloaded with a media_path is so after the step as well.
DownloadedStays ==
    \A r \in store.memories :
        (r.download_status = "Downloaded" /\ IsSome(r.media_path)) =>
            \E q \in store'.memories :
                /\ q.id = r.id
                /\ q.download_status = "Downloaded"
                /\ IsSome(q.media_path)

\* The two calls hold the same target file open for writing.
SharedTarget ==
    /\ downloader.pc # "idle" /\ peer.pc # "idle"
    /\ downloader.file.open /\ peer.file_open
    /\ downloader.file.path = peer.file_path

\* C30: under any interleaving of the calls, a row of memories that is
\* Downloaded with its media_path is never overwritten with Downloading or
\* Failed or without the path, and no two calls write the same target file
\* at the same time.
C30_DownloadedKeptAndTargetsApart ==
    [][DownloadedStays]_vars /\ []~SharedTarget

====
